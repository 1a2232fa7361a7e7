SPECIFICATION Spec
CONSTANTS
  MaxWrites = 2
  FailAttempts = {1, 2}
  FailBodies <- MCBodies
  FailCaptures = {}
  FailLaunches = {"l1"}
  MaxActivations = 2
  MaxGrants = 1
  SaProxies = 2
  Monitors = {p1, p2}
  MonObservations <- MCObservations
  MonLease = 1
  MaxLog = 2
  MaxCycles = 3
  MaxTicks = 2
  Workers = {w1, w2}
  RootBudget = 2
  Shares = {0, 1}
  MaxBoots = 2
  CwSpawns = {"s1", "s2"}
  CwWorks = {"x", "y"}
  CwCancels = {"k1", "k2"}
  CsCalls = {"k1", "k2"}
  CsRemotes = 2
  WtApplies = {"a1", "a2"}
  WtEvidence = {"qualification", "incidents"}
  WtWrites = 2
  WrLaunchers = {"a", "b"}
  WrPids = {1, 2}
  WrTokens = 3
  WrKills = 1
  CkStores = {"ready", "older"}
  CkReady = {"ready"}
  CkServers <- MCServers
  CkRuns = 2
  CkUpsets = 2
INVARIANTS
  MaintenanceIsSound
  SiteStaysServed
  EscapesAreOnRecord
  RetirementIsSound
  WriterRunsAreSound
  CurrentnessIsProved
PROPERTIES
  DeploymentIsReversible
  MonitorIsSound
  LeasesAreSound
  WorkersAreSound
  SyncIsSound
CHECK_DEADLOCK FALSE
