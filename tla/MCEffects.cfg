SPECIFICATION Spec
CONSTANTS
  c1 = c1
  c2 = c2
  o1 = o1
  o2 = o2
  w1 = w1
  v1 = v1
  v2 = v2
  PeCallers <- SomeCallers
  PeOps <- SomeOps
  PeWorks = {w1}
  PeValues <- SomeValues
  PeKinds = {"append", "update", "relate", "move", "create"}
  MaxEvents = 1
  MaxCalls = 3
  TfCalls = {"r1", "r2"}
  TfLines = {1, 2}
  TfOld = {1}
  TfPairs = 4
  TfWindow = 2
  TfSpan = 2
  TfUpsets = 1
SYMMETRY Interchangeable
INVARIANTS
  JournalIsSound
PROPERTIES
  EffectsHappenAsRecorded
  RefreshIsSound
CHECK_DEADLOCK FALSE
