CONSTANTS
  rootBox = rootBox
  headBox = headBox
  thread = thread
  next = next
  Deliveries = {1, 2}
  Recipients = {rootBox}
  RecipientOf <- MCRecipientOf
  Roots = {thread}
  RootOf <- MCRootOf
  Heads = {}
  MaxGeneration = 1
  MaxIncidents = 1
  None = None
SPECIFICATION Spec
CHECK_DEADLOCK FALSE
PROPERTIES
  LaterSignalRetries
