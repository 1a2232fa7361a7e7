CONSTANTS
  a1 = a1
  a2 = a2
  b1 = b1
  alpha = alpha
  beta = beta
  Actors = {a1, a2, b1}
  PrincipalOf <- MCPrincipalOf
  TypeOf <- MCTypeOf
  Names = {coordinator, root, alpha, beta}
  Coordinator = coordinator
  Root = root
  Endpoints = {e1, e2}
  MaxGeneration = 2
  MaxLost = 1
  MaxTransfers = 2
  None = None
SPECIFICATION MailboxSpec
SYMMETRY Symmetry
INVARIANTS
  RegistryIsConsistent
  OneApprovalPerGeneration
PROPERTIES
  NewOwnerNewGeneration
  LostCoordinatorTakeoverIsNotRepeated
