SPECIFICATION RecordsSpec
CONSTANTS
  Exact = {exact}
  Null = Null
  Unset = Unset
  Saves = {s1, s2}
  Texts = {t1, t2}
  RrGrants = 3
  FailAttempts = {1, 2}
  FailBodies = {1, 2}
  FailCaptures = {c1, c2}
  FailLaunches = {"l1", "l2"}
  RoRevs = 2
  RoChanges = 6
  RoReviews = 2
  RoChecks = {"none", "preserved"}
  RoFindings = {f1}
  IrRevs = 2
  IrOps = {o1, o2}
  IrRuns = {r1}
  IrPassBound = 2
  IrUpsets = 1
  TrRevs = 2
  TrRuns = {r1, r2}
  TrObjectives = {j1}
  TrResults = {s1, s2}
  TrBodies = {b1, b2}
  TrClients = {c1, c2}
  TrOps = {p1, p2}
  TrChain = 2
  PcOps = {o1, o2}
  PcPeople = {"p1", "p2"}
  PcSubjects = {"WORK", "PROJECT"}
  PcRelations = {"HIGH", "NORMAL"}
  PcRevs = 2
  PcCalls = 3
  AcOps = {1, 2, 3}
  AcClients = {"c1", "c2"}
  AcRoles = {"product", "owner", "adopter", "authority"}
  AcAdoption = {"NOT_REQUIRED", "PENDING"}
  AcLength = 3
  AcBases = 1
  PrIds = {1, 2}
  PrTraded = {1}
  PrNames = {"a", "b"}
  PrWorks = {"v", "w"}
  PrPage = 1
  PrTakeovers = 2
  PrVersions = 4
INVARIANTS
  RowIsWhole
  EvidenceReachesTheJournal
  ClaimsAreSound
  ContinuityIsSound
PROPERTIES
  StepsKeepThePolicy
  ResultIsSavedAsBound
  ReviewsAreSound
  ApprovalIsSound
  RunRecordsStand
  OwnershipIsSound
CHECK_DEADLOCK FALSE
