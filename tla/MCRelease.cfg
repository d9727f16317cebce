INIT Init
NEXT Next
CONSTANTS
  Providers = {"p1", "p2"}
  Faulty = {"p2"}
  Published = "main"
  PlanInputs <- Inputs
  PreflightPolicies <- PreP
  PostflightPolicies <- PostP
  DeploymentPolicies <- DP
  PromotionPolicies <- PromP
  GenesisOwners <- GO
  RotatedOwners <- RO
  Threshold <- TH
  Limit <- Lim
  MaxTime = 5
  MaxFaults = 1
  Cap <- Caps
  ModeMaximum <- Maxima
  ServiceRules <- Rules
  OperationalDrills = {"incident", "gate"}
  GateControlDrills = {"gate"}
  ConfirmerServices = {"confirmerA", "confirmerB"}
  QualificationPlan <- QPlan
  RequiredScenarios = {"incident", "gate"}
  CampaignPlans <- CampaignStart
  CampaignScenarios <- Scenarios
  CampaignMetrics <- Metrics
  Finalizations <- Finals
  Bundles <- BundleDrafts
  Reconciliations <- Recs
  Capabilities <- Caps1
  DaemonPolicies <- Policies
  CountMinimum <- Minimum
  MaxReleaseLife = 7
  MaxObservationAge = 1
  GateOpenings <- Openings
  Packages <- PackageDrafts
  Drills <- DrillDrafts
  Restored = {"r1", "r2"}
  ChangeKinds = {"provider", "service-runtime", "solver-key", "wallet-owner", "storage-schema"}
  FrozenKinds = {"wallet-owner", "storage-schema"}
  InitialStores <- StoreDrafts
  MaxJobs = 2
  MaxRevision = 1
  MaxSets = 2
CONSTRAINT Focus
INVARIANT PromotedIsDeployed
INVARIANT FundingEvidenceCovers
INVARIANT ActivationObserved
PROPERTY JobsStartExact
PROPERTY RotationStrandsNothing
CHECK_DEADLOCK FALSE
