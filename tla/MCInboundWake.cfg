CONSTANTS
  rootBox = rootBox
  headBox = headBox
  thread = thread
  next = next
  Deliveries = {1, 2}
  Recipients = {rootBox}
  RecipientOf <- MCRecipientOf
  Roots = {thread, next}
  RootOf <- MCRootOf
  Heads = {}
  MaxGeneration = 3
  MaxIncidents = 1
  None = None
SPECIFICATION Spec
CHECK_DEADLOCK FALSE
INVARIANTS
  NoticeIsFenced
PROPERTIES
  FreshMailIsKept
  FreshMailIsNoticed
