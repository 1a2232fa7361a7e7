CONSTANTS
  a1 = a1
  a2 = a2
  b1 = b1
  Actors = {a1, a2, b1}
  PrincipalOf <- MCPrincipalOf
  TypeOf <- MCTypeOf
  Names = {coordinator, root, alpha}
  Coordinator = coordinator
  Root = root
  e1 = e1
  e2 = e2
  Endpoints = {e1, e2}
  alpha = alpha
  MaxGeneration = 2
  MaxLost = 0
  MaxTransfers = 0
  None = None
  MsgIds = {m1}
  ReviewRequestId = rr
  VerdictId = rv
  Payloads = {p}
  Briefs = {p}
  Review = review
  CutoffInstalled = TRUE
  MaxMessages = 2
  Calls = {c1, c2}
SPECIFICATION MCSpec
SYMMETRY Symmetry
INVARIANTS
  MailIsWhole
PROPERTIES
  DeliveriesMoveForward
