------------------------------- MODULE MCRelease -------------------------------
(***************************************************************************)
(* One release from the unsigned plan to the rotation of its operating     *)
(* set, with one provider that lies.  Each behaviour follows one part: the *)
(* deployment ceremony; a public campaign and the funding it qualifies; a  *)
(* bootstrap release and its funding; its recovery; its custody.  The      *)
(* later parts start where an undisturbed earlier part ends.               *)
(***************************************************************************)
EXTENDS RetainedCustody, TLC

VARIABLE focus
mcVars == <<deploymentVars, evidenceFiles, activationVars, custodyVars, focus>>

-------------------------------------------------------------------------------
(* The ceremony: the good input and two that must be refused. *)

GO == [controller |-> {"c1", "c2", "c3"}, guardian |-> {"g1", "g2", "g3"}, feeCollector |-> {"f1", "f2", "f3"}]
RO == [GO EXCEPT !.controller = {"g1", "g2", "c3"}]
TH == [r \in Roles |-> 2]
Risk == [maxFeeBps |-> 100, maxPriceDeviationBps |-> 500, referenceSatsPerBit |-> 100, minSettlementWindow |-> 2,
         minClaimBuffer |-> 1, maxLockDuration |-> 3, maxSwapAmount |-> 1, maxEpochVolume |-> 2]
GoodInput ==
  [id |-> "plan", environment |-> "public-testnet", chainId |-> 11155111, commit |-> "main",
   review |-> "review", owners |-> GO, threshold |-> TH, wallet |-> [r \in Roles |-> r], startingNonce |-> 0,
   tokenBoundary |-> "reviewed-public-testnet-bit-proxy", bitPaused |-> FALSE, resumeDelay |-> 86400,
   maxOpenDuration |-> 604800, risk |-> [e \in Escrows |-> Risk],
   artifacts |-> [pinned |-> TRUE, linked |-> TRUE, sources |-> "main"]]
Inputs == {GoodInput, [GoodInput EXCEPT !.id = "unpublished", !.artifacts.sources = "branch"],
           [GoodInput EXCEPT !.id = "small", !.owners["guardian"] = {"g1", "g2"}]}

A(role, id) == [role |-> role, id |-> id, signer |-> id]
ProviderApprovers == {A("provider", "p1"), A("provider", "p2")}
Ops == A("operations-reviewer", "ops")
Rev == A("contract-reviewer", "rev")
PrePolicy == [planDigest |-> "plan", minimumProviderCount |-> 2, maximumObservationAge |-> 1, maximumBlockAge |-> 1,
              lifetime |-> 2, approvers |-> ProviderApprovers \cup {Ops}]
PostPolicy == [planDigest |-> "plan", deploymentPolicyDigest |-> "dp", minimumProviderCount |-> 2,
               maximumObservationAge |-> 1, lifetime |-> 1, approvers |-> ProviderApprovers \cup {Ops, Rev}]
PromPolicy == [reviewBundle |-> "review", minimumProviderCount |-> 2, maximumObservationAge |-> 1, lifetime |-> 1,
               approvers |-> ProviderApprovers \cup {Ops, Rev}]
DepPolicy == [id |-> "dp", chainId |-> 11155111, commit |-> "main", review |-> "review", codeHashes |-> "main",
              minResumeDelay |-> 86400, maxOpenDuration |-> 604800, maxFeeBps |-> 100,
              maxPriceDeviationBps |-> 500, referenceSatsPerBit |-> 100]
PreP == {PrePolicy}
PostP == {PostPolicy}
PromP == {PromPolicy}
DP == {DepPolicy}
Lim == [preflightAge |-> 1, preflightLife |-> 2, postflightAge |-> 1, postflightLife |-> 1, promotionAge |-> 1,
        promotionLife |-> 1]

\* Approvers sign in one order, the lying provider answers when the honest one has, the empty
\* block at a new time is final only after a first registration; the order is not what is checked.
SigningOrder == <<Rev, Ops, A("provider", "p1"), A("provider", "p2")>>
InOrder(r) ==
  r.stage = "none" \/ LET need == SelectSeq(SigningOrder, LAMBDA a : a \in r.policy.approvers)
                      IN r.signed = ToSet(SubSeq(need, 1, Cardinality(r.signed)))
LiarFollows(seen) == seen["p2"].stage = "done" => seen["p1"].stage = "done"
CeremonyFocus ==
  /\ InOrder(preflight) /\ InOrder(postflight) /\ InOrder(promotion)
  /\ LiarFollows(preSeen) /\ LiarFollows(postSeen) /\ LiarFollows(manifestSeen)
  /\ Happened(chain, "gate") => preflight.stage = "record" /\ preflight.signed \in {{}, preflight.policy.approvers}
  /\ manifestSeen["p1"] # NotSeen => postflight.signed \in {{}, postflight.policy.approvers}
  /\ promotion.stage = "record" => manifestSeen["p2"] # NotSeen /\ postflight.signed # {}
  /\ faults > 0 => now <= 2
  /\ Registered(chain) # {} => Happened(chain, "userEscrow")
  /\ (now > 1 \/ faults > 0) => plan # None
  /\ finalized > 1 => Happened(chain, "register-vault") \/ faults > 0
  /\ now <= 3

\* The state at the end of a ceremony that took one second.
PromotedChain == <<[kind |-> "empty", time |-> 1]>> \o [i \in DOMAIN PlanSteps |-> [kind |-> PlanSteps[i], time |-> 1]]
Seen(block, state) == [stage |-> "done", at |-> 1, block |-> block, state |-> state]
PromotedInit(c, t) ==
  /\ now = t /\ chain = PromotedChain \o c /\ finalized = Len(PromotedChain) + Len(c)
  /\ stray = FALSE /\ faults = 0 /\ plan = GoodInput
  /\ LET genesis == SubSeq(PromotedChain, 1, 1)
         before == [nonce |-> 0, code |-> {}, owners |-> GO, paused |-> FALSE, registered |-> {}, sealed |-> FALSE,
                    closed |-> TRUE, balance |-> 0]
         after == [nonce |-> 4, code |-> ToSet(Deployments), owners |-> GO, paused |-> FALSE, registered |-> Escrows,
                   sealed |-> TRUE, closed |-> TRUE, balance |-> 0]
     IN /\ preSeen = [p \in Providers |-> Seen(genesis, before)]
        /\ preflight = [stage |-> "record", policy |-> PrePolicy, preparedAt |-> 1, validUntil |-> 3,
                        anchor |-> genesis, signed |-> PrePolicy.approvers]
        /\ postSeen = [p \in Providers |-> Seen(PromotedChain, after)]
        /\ postflight = [stage |-> "record", policy |-> PostPolicy, deploymentPolicy |-> DepPolicy, preparedAt |-> 1,
                         validUntil |-> 2, block |-> PromotedChain, manifest |-> after, signed |-> PostPolicy.approvers]
        /\ manifestSeen = [p \in Providers |-> Seen(PromotedChain, after)]
        /\ promotion = [stage |-> "record", policy |-> PromPolicy, preparedAt |-> 1, validUntil |-> 2,
                        signed |-> PromPolicy.approvers]
        /\ promoted = [stage |-> "verified", block |-> PromotedChain, promotedAt |-> 1, validUntil |-> 2,
                       approvers |-> PromPolicy.approvers, signed |-> {}]

-------------------------------------------------------------------------------
(* The evidence of a release: valid from 1 to 5, for a release from 2 to 4. *)

Subject == [commit |-> "main", chainId |-> 11155111, manifest |-> "plan"]
Person(role, id) == [role |-> role, id |-> id, org |-> id, signer |-> id]
Caps == [freshness |-> 4, lifetime |-> 4, drill |-> 1, bootstrapAge |-> 4, bootstrapLife |-> 4, campaignMin |-> 1,
         campaignMax |-> 2, reconciliation |-> 1]
Maxima == [m \in Modes |-> [maxSwapSats |-> 50, maxInFlightSats |-> 100, maxEpochSats |-> 200]]
Rules == [web |-> [zone |-> "public", classes |-> {}, operator |-> "infrastructure-operator"],
          confirmerA |-> [zone |-> "private", classes |-> {"rpc"}, operator |-> "infrastructure-operator"],
          confirmerB |-> [zone |-> "private", classes |-> {"lightning"}, operator |-> "lightning-operator"]]
Confirmers == {"confirmerA", "confirmerB"}
QPlan == [campaigns |-> {"unit", "long"}, configuration |-> "config"]

Isolation ==
  [id |-> "isolation", subject |-> Subject, preparedAt |-> 1, validUntil |-> 5,
   policy |-> [age |-> 4, lifetime |-> 4, credentialLife |-> 4, organizations |-> 2, services |-> DOMAIN Rules, subject |-> Subject],
   people |-> {Person("infrastructure-operator", "infra"), Person("lightning-operator", "ln"), Person("security-reviewer", "sec")},
   services |->
     [s \in DOMAIN Rules |->
        [zone |-> Rules[s].zone, encrypted |-> TRUE, classes |-> Rules[s].classes, domain |-> s,
         operator |-> IF s = "confirmerB" THEN "ln" ELSE "infra",
         credential |-> IF s = "web" THEN "zero" ELSE s,
         reviewedAt |-> IF s = "web" THEN 0 ELSE 1, expiresAt |-> IF s = "web" THEN 0 ELSE 5]],
   signed |-> {Person("infrastructure-operator", "infra"), Person("lightning-operator", "ln"), Person("security-reviewer", "sec")}]

Limits == [maxSwapSats |-> 50, maxInFlightSats |-> 100, maxEpochSats |-> 200, maxDailyLightningSats |-> 200,
           minLightningReserveSats |-> 10, minBitReserveWei |-> 1]
AdoptionDoc(mode) ==
  [id |-> "adoption", mode |-> mode, subject |-> Subject, preparedAt |-> 1, validUntil |-> 5, policies |-> "policies",
   supportOwner |-> "support", incidentCommander |-> "commander", limits |-> Limits,
   fees |-> [baseLightningToBitBps |-> 10, baseBitToLightningBps |-> 20, maxFeeBps |-> 100, reserveFloorBps |-> 100,
             scarcityStartsBps |-> 200],
   liveness |-> [lastLookAllowed |-> FALSE, partialFillsAllowed |-> FALSE, maxFirmQuoteTtl |-> 60,
                 maxActiveFirmQuotesPerSolver |-> 2, minimumReliabilitySample |-> 20, minimumReliabilityBps |-> 9500,
                 unknownSolverMax |-> 10, establishedSolverMax |-> 50, maxGlobalInFlight |-> 100],
   privacy |-> [logsSecrets |-> FALSE, linkageDisclosed |-> TRUE, pricing |-> 600, terminal |-> 3600, receipts |-> 86400],
   loss |-> [reimbursement |-> FALSE, insurance |-> FALSE, solverBearsDelivery |-> TRUE, unresolved |-> "halt-and-case-review"],
   support |-> [paths |-> {"a", "b", "c"}, acknowledge |-> 900, respond |-> 86400],
   upgrades |-> [migration |-> FALSE, increasesRisk |-> FALSE, bitChange |-> "halt", pause |-> "halt"]]

MonitorDoc(upstream) ==
  [id |-> "monitor", subject |-> Subject, preparedAt |-> 1, validUntil |-> 5, upstream |-> upstream,
   routes |-> [routeA |-> "infra", routeB |-> "ln"]]
ConfirmerDocs ==
  [c \in Confirmers |-> [domain |-> c, credential |-> c, route |-> IF c = "confirmerA" THEN "routeA" ELSE "routeB",
                         operator |-> IF c = "confirmerA" THEN "infra" ELSE "ln"]]
OpsPeople == {Person("backup-operator", "backup"), Person("incident-commander", "commander"),
              Person("lightning-operator", "ln"), Person("monitoring-operator", "m1"), Person("support-owner", "support")}
DrillDoc(controls, evidence) ==
  [passed |-> TRUE, startedAt |-> 1, finishedAt |-> 1, primary |-> "commander", observers |-> {"support", "backup"},
   controls |-> controls, evidence |-> evidence]
OperationsDoc(mode) ==
  [id |-> "operations", mode |-> mode, subject |-> Subject, preparedAt |-> 1, validUntil |-> 5, monitor |-> "monitor",
   policy |-> [age |-> 4, lifetime |-> 4, drillAge |-> 2, drillDuration |-> 1, alertChannels |-> 2, organizations |-> 5,
               drills |-> {"incident", "gate"}, gateDrills |-> {"gate"}, confirmers |-> Confirmers, mode |-> mode,
               subject |-> Subject, monitor |-> "monitor"],
   people |-> OpsPeople, signed |-> OpsPeople, alerts |-> {"pager", "mail"}, confirmers |-> ConfirmerDocs,
   drills |-> [incident |-> DrillDoc("none", "e1"),
               gate |-> DrillDoc([proved |-> TRUE, monitor |-> "monitor", confirmers |-> ConfirmerDocs], "e2")],
   artifacts |-> [serviceIsolation |-> "isolation", adoption |-> "adoption", testQualification |-> "qualification"]]

ReviewPeople == {Person(r, r) : r \in ReviewRoles}
Review ==
  [policy |-> [age |-> 4, lifetime |-> 4, findings |-> 10, subject |-> Subject], subject |-> Subject, startedAt |-> 1,
   preparedAt |-> 1, validUntil |-> 5, people |-> ReviewPeople, signed |-> ReviewPeople,
   reports |-> {[count |-> 2, fixed |-> 1, accepted |-> 1, inapplicable |-> 0, open |-> 0, acceptedSevere |-> 0]}]

Reviewer == Person("qualification", "qa")
QualificationDoc(mode) ==
  [id |-> "qualification", preparedAt |-> 1, validUntil |-> 5, passed |-> TRUE, file |-> "artifact", signed |-> {Reviewer},
   policy |-> [mode |-> mode, subject |-> Subject, commit |-> "main", reviewer |-> Reviewer, age |-> 4, lifetime |-> 4],
   artifact |-> [id |-> "artifact", branch |-> "main", commit |-> "main", startedAt |-> 1, finishedAt |-> 1,
                 campaigns |-> QPlan.campaigns, passed |-> QPlan.campaigns, configuration |-> "config", images |-> 3,
                 longRun |-> [startedAt |-> 1, finishedAt |-> 1, commit |-> "main"]]]

UpstreamPeople(providers) ==
  {Person("evm-provider", p) : p \in providers} \cup {Person("lightning-observer", o) : o \in {"o1", "o2"}}
    \cup {Person("monitor", m) : m \in {"m1", "m2"}} \cup {Person("relay", r) : r \in {"r1", "r2"}}
    \cup {Person("solver", s) : s \in {"s1", "s2"}}
Two == [r \in UpstreamRoles |-> 2]
Minimum == [f \in UpstreamRoles \cup {"alertChannels", "owners", "threshold"} |-> IF f = "owners" THEN 3 ELSE 2]
Bootstrap ==
  [id |-> "bootstrap", subject |-> Subject, preparedAt |-> 1, validUntil |-> 5, policies |-> "policies",
   policy |-> [age |-> 4, lifetime |-> 4, subject |-> Subject, minimum |-> Two, alertChannels |-> 2],
   people |-> UpstreamPeople({"p1", "p2"}), signed |-> UpstreamPeople({"p1", "p2"}), alerts |-> {"pager", "mail"},
   operatorInventoryOnly |-> TRUE, artifacts |-> [testQualification |-> "qualification"]]

RoleApprovers ==
  [r \in ReleaseRoles |->
     [signer |-> CASE r = "incidentCommander" -> "commander" [] r = "lightningOperator" -> "ln"
                   [] r = "securityReviewer" -> "sec" [] OTHER -> r,
      kind |-> IF r \in WalletRoles THEN "erc1271" ELSE "eip712"]]
Bundle(mode, upstream, from, until) ==
  [mode |-> mode, upstream |-> upstream, isolation |-> Isolation, adoption |-> AdoptionDoc(mode),
   monitor |-> MonitorDoc(upstream.id), operations |-> OperationsDoc(mode), review |-> Review,
   qualification |-> QualificationDoc(mode),
   record |-> [id |-> "release", validFrom |-> from, validUntil |-> until, ownerCount |-> 3, threshold |-> 2,
               limits |-> Limits, features |-> {}],
   policy |-> [lifetime |-> 2, maxAge |-> 1, maximums |-> [maxSwapSats |-> 50], reserves |-> [minBitReserveWei |-> 1],
               approvers |-> RoleApprovers]]
Good == Bundle("operator-testnet-bootstrap", Bootstrap, 2, 4)
\* One thing is wrong with each of these.
Spoiled ==
  [stale_adoption |-> [Good EXCEPT !.adoption.validUntil = 3],
   stale_monitor |-> [Good EXCEPT !.monitor.validUntil = 3],
   stale_isolation |-> [Good EXCEPT !.isolation.validUntil = 3],
   short_credential |-> [Good EXCEPT !.isolation.services["confirmerA"].expiresAt = 3],
   solver_reviews |->
     [Good EXCEPT !.review.people = (@ \ {Person("lightning", "lightning")}) \cup {Person("lightning", "s1")},
                  !.review.signed = (@ \ {Person("lightning", "lightning")}) \cup {Person("lightning", "s1")}],
   approver_qualifies |->
     [Good EXCEPT !.qualification.policy.reviewer.signer = "sec",
                  !.qualification.signed = {[Reviewer EXCEPT !.signer = "sec"]}],
   high_fee |-> [Good EXCEPT !.adoption.fees.maxFeeBps = 200],
   plain_guardian |-> [Good EXCEPT !.policy.approvers["guardian"].kind = "eip712"]]

-------------------------------------------------------------------------------
(* A public campaign from 1 to 2, with one scenario and one metric that must be refused. *)

CampaignPeople == UpstreamPeople({"p1", "p3"})
Scenario(name, evidence) ==
  [name |-> name, passed |-> TRUE, startedAt |-> 1, finishedAt |-> 2, observers |-> {"m1", "m2"}, evidence |-> evidence]
Metric(operator) ==
  [operator |-> operator, requests |-> 21, selected |-> 20, bitToLightning |-> 10, lightningToBit |-> 10,
   completed |-> 18, timedOut |-> 1, failed |-> 0, abandoned |-> 1]
CampaignStart ==
  {[parent |-> None, scenarios |-> {}, metrics |-> {}, startedAt |-> 1, people |-> CampaignPeople,
    policy |-> [minDuration |-> 1, maxDuration |-> 1, age |-> 3, reconciliationAge |-> 1, perDirection |-> 10,
                perSolver |-> 20, timeoutBps |-> 2000, failureBps |-> 1000, scenarios |-> {"incident", "gate"},
                minimum |-> Two, alertChannels |-> 2, subject |-> Subject]]}
Scenarios == {Scenario("incident", "e1"), Scenario("gate", "e2"), [Scenario("gate", "e2") EXCEPT !.passed = FALSE]}
Metrics == {Metric("s1"), Metric("s2"), [Metric("s2") EXCEPT !.completed = 17]}
Final ==
  [id |-> "campaign", artifacts |-> [testQualification |-> "qualification"], policies |-> "policies", finishedAt |-> 2,
   alerts |-> {"pager", "mail"}, signed |-> CampaignPeople,
   gate |-> [initiallyClosed |-> TRUE, finallyClosed |-> TRUE, halted |-> TRUE, exitsPreserved |-> TRUE],
   reconciliation |-> [unreconciled |-> 0, at |-> 2]]
Finals == {Final, [Final EXCEPT !.reconciliation.unreconciled = 1]}
CampaignBundle == Bundle("operator-testnet", [id |-> "campaign"], 2, 4)

BundleDrafts == [good |-> Good, campaign |-> CampaignBundle] @@ Spoiled

-------------------------------------------------------------------------------
(* The authorities of a release. *)

Rec(from) ==
  [release |-> "release", observedAt |-> from, validUntil |-> from + 1, unreconciled |-> 0, available |-> 10,
   inFlight |-> 0, epoch |-> 0, daily |-> 0, signed |-> {"commander", "ln"}]
Recs == {Rec(2), Rec(3), [Rec(3) EXCEPT !.unreconciled = 1], [Rec(3) EXCEPT !.signed = {"commander"}]}
Openings == {[risk |-> "release", until |-> 4], [risk |-> "release", until |-> 5], [risk |-> "other", until |-> 4]}
Capability(from) ==
  [solver |-> "s1", direction |-> "lightning-to-bit", contract |-> "vault", observedAt |-> from, expiresAt |-> from + 2,
   keys |-> "k1"]
Caps1 == {Capability(3)}
DaemonPolicy ==
  [release |-> "release", contract |-> "vault", solver |-> "s1", direction |-> "lightning-to-bit",
   approvers |-> {"commander", "ln"}, evidenceAge |-> 1]
Policies == {DaemonPolicy, [DaemonPolicy EXCEPT !.release = "other"]}

-------------------------------------------------------------------------------
(* Custody: an old package, the new one with other providers, and one without its authority. *)

Settlement(id, bound, rev) ==
  [id |-> id, release |-> "release", direction |-> "lightning-to-bit", policy |-> "evidence", bound |-> bound, rev |-> rev]
Live(rows, offers) == [rows |-> rows, offers |-> offers, present |-> TRUE]
LiveStores == {Live({Settlement("x1", TRUE, 1), Settlement("x2", TRUE, 1)}, 0), Live({Settlement("x1", FALSE, 0)}, 0),
               Live({}, 1), Live({}, 0)}
StoreDrafts == LiveStores \cup {Absent}
Kept(hash) ==
  [providers |-> [ids |-> {"p1", "p2"}, hash |-> hash], archive |-> "archive", commit |-> "main",
   policies |-> {[release |-> "release", direction |-> "lightning-to-bit", policy |-> "evidence", solver |-> "s1"]},
   authorities |-> {[direction |-> "lightning-to-bit", policy |-> "evidence", solver |-> "s1", keys |-> "k1"]}]
Witness(id) == [id |-> id, signer |-> id, org |-> id]
Package(releases) ==
  [releases |-> releases, host |-> "live", process |-> "live",
   witness |-> [witnesses |-> {Witness("w1"), Witness("w2")}, minimum |-> 2, maxDuration |-> 1, maxAge |-> 1]]
Over(kept) == [r \in {"release"} |-> kept]
PackageDrafts ==
  [old |-> Package(Over(Kept("old"))), new |-> Package(Over(Kept("new"))), empty |-> Package([r \in {} |-> Kept("old")]),
   bare |-> Package(Over([Kept("old") EXCEPT !.authorities = {}]))]
DrillDraft(role, at, attested) ==
  [role |-> role, startedAt |-> at, finishedAt |-> at, recovered |-> 1, attested |-> attested]
DrillDrafts == {DrillDraft("old", 2, {Witness("w1"), Witness("w2")}), DrillDraft("new", 2, {Witness("w1"), Witness("w2")}),
                DrillDraft("new", 2, {Witness("w1")})}

-------------------------------------------------------------------------------
(* Where each part starts. *)

Empty(t) == [kind |-> "empty", time |-> t]
Open == [kind |-> "open", time |-> 2, risk |-> "release", until |-> 4]
At(kind, t) == [kind |-> kind, time |-> t]
Approved == [r \in ReleaseRoles |-> [signed |-> TRUE, owners |-> IF r \in WalletRoles THEN GO[r] ELSE {}]]
PreparedInit ==
  /\ candidate = [stage |-> "prepared", bundle |-> "good", anchor |-> PromotedChain \o <<Empty(2)>>]
  /\ approvals = Approved /\ attempt = NoAttempt /\ contexts = [m \in ActivationModes |-> NoContext]
NoFiles == workspaces = {} /\ campaign = NotSeen

Init ==
  \/ /\ focus = "ceremony" /\ DeploymentInit /\ NoFiles /\ ActivationInit /\ CustodyInit(Absent)
  \/ /\ focus \in {"campaign", "funding"} /\ PromotedInit(<<Empty(2)>>, 2) /\ NoFiles /\ ActivationInit /\ CustodyInit(Absent)
  \/ /\ focus = "recovery" /\ NoFiles /\ CustodyInit(Absent) /\ PreparedInit
     /\ activations = [m \in ActivationModes |-> NoActivation]
     /\ \/ PromotedInit(<<Empty(2)>>, 2)
        \/ PromotedInit(<<Empty(2), Open, At("deposit", 2), At("lock", 2)>>, 2)
  \/ /\ focus = "custody" /\ NoFiles /\ PreparedInit
     /\ \E live \in LiveStores : CustodyInit(live)
     /\ \E c \in {<<Empty(2), Empty(3)>>, <<Empty(2), Open, Empty(3)>>} :
          /\ PromotedInit(c, 3)
          /\ activations =
               [m \in ActivationModes |->
                  IF m = "funding" THEN NoActivation
                  ELSE [stage |-> "verified", active |-> TRUE, at |-> 3, block |-> PromotedChain \o c, rec |-> NotSeen,
                        validUntil |-> 4]]

Ceremony == focus = "ceremony" /\ CeremonyStep /\ now' <= 3
Campaign == focus = "campaign" /\ CampaignStep
Clock == focus # "ceremony" /\ Tick /\ UNCHANGED <<evidenceFiles, activationVars, custodyVars>>
Activate ==
  /\ focus \in {"campaign", "funding", "recovery"} /\ ActivationStep
  /\ attempt'.stage # "none" => attempt'.mode = (IF focus = "recovery" THEN "recovery" ELSE "funding")
Custody == focus = "custody" /\ CustodyNext
Revoke == focus = "custody" /\ Deactivate("recovery") /\ UNCHANGED custodyVars
Next == (Ceremony \/ Campaign \/ Clock \/ Activate \/ Custody \/ Revoke) /\ UNCHANGED focus

\* Packages are inspected before a store is restored, over one backup; the second store is left
\* as it was restored; a behaviour starts jobs, or runs an old drill and then a new one.
CustodyFocus ==
  /\ Cardinality(custodies) <= 2 /\ \A c \in custodies : c.backup = backup
  /\ stores["r1"].present => custodies # {}
  /\ stores["r2"].present => stores["r1"].present /\ stores["r2"] = backup
  /\ stores["live"].rows \notin {s.rows : s \in LiveStores} => backup.present
  /\ Cardinality(readiness) <= 2 /\ (\A q, r \in readiness : q # r => q.custody # r.custody)
  /\ jobSets # <<>> => drilled = {} /\ stores["live"] = backup
  /\ drilled # {} => stores["r1"] = backup
  /\ Cardinality(drilled) <= 2 /\ (\A e \in drilled : e.drill.role = "new" => Cardinality(drilled) = 2)
  /\ drilled # {} => Cardinality(readiness) = 2
  /\ ~activations["recovery"].active => readiness = {}
  /\ rotation = NotSeen

\* Scenarios come before metrics and the workspace forks once; the campaign that qualifies a
\* release did not fork, took one order, and the gate opened in its first second.
CampaignFocus ==
  /\ Cardinality(workspaces) <= 6 /\ faults = 0 /\ now <= 3 /\ (now > 2 => GateOpen(chain))
  /\ Locked(chain) = 0 /\ (Happened(chain, "open") => LastOpening(chain).risk = "release" /\ LastOpening(chain).until = 4)
  /\ activations["funding"].stage = "verified" => activations["funding"].active
  /\ \A w \in workspaces : w.metrics # {} => Cardinality(w.scenarios) = 2
  /\ campaign # NotSeen =>
       /\ Cardinality(workspaces) = 5
       /\ \A w \in workspaces :
            /\ Cardinality(w.scenarios) = 1 => Scenario("incident", "e1") \in w.scenarios
            /\ Cardinality(w.metrics) = 1 => Metric("s1") \in w.metrics

\* Bounds on the order of what is independent, and on forks of the campaign's workspace.
RoleOrder == <<"controller", "guardian", "incidentCommander", "lightningOperator", "securityReviewer">>
Focus ==
  /\ focus = "ceremony" => CeremonyFocus
  /\ \A i \in 2..5 : approvals[RoleOrder[i]].signed => approvals[RoleOrder[i - 1]].signed
  /\ focus = "campaign" => CampaignFocus
  /\ focus \in {"campaign", "funding"} =>
       /\ Len(chain) > 9 => candidate # NoCandidate
       /\ (attempt # NoAttempt \/ Happened(chain, "deposit")) => approvals["securityReviewer"].signed
       /\ approvals["controller"].signed /\ ~approvals["securityReviewer"].signed => now <= 3
       /\ (attempt # NoAttempt \/ Happened(chain, "open")) => Happened(chain, "deposit")
  /\ focus # "ceremony" => now <= 4 /\ (attempt # NoAttempt /\ "p2" \in attempt.heads => "p1" \in attempt.heads)
  /\ \A m \in ActivationModes : activations[m].stage = "verified" /\ ~activations[m].active => now <= 3
  /\ focus = "recovery" => now <= 3 /\ Deposited(chain) = Locked(chain)
  /\ focus = "custody" => CustodyFocus
===============================================================================
