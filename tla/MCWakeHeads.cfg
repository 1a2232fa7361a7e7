CONSTANTS
  rootBox = rootBox
  headBox = headBox
  thread = thread
  next = next
  Deliveries = {1, 3}
  Recipients = {rootBox, headBox}
  RecipientOf <- MCRecipientOf
  Roots = {thread}
  RootOf <- MCRootOf
  Heads = {headBox}
  MaxGeneration = 1
  MaxIncidents = 0
  None = None
SPECIFICATION Spec
CHECK_DEADLOCK FALSE
INVARIANTS
  RootTurnsDoNotOverlap
