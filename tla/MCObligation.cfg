SPECIFICATION AcSpec
CONSTANTS
  AcOps = {1, 2, 3}
  AcClients = {"c1", "c2"}
  AcRoles = {"product", "owner", "verifier", "adopter", "authority"}
  AcAdoption = {"NOT_REQUIRED", "PENDING"}
  AcLength = 3
  AcBases = 2
INVARIANTS
  StoredRecordsAreCoherent
CHECK_DEADLOCK FALSE
