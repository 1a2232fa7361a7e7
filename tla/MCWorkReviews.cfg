CONSTANTS
  w1 = w1
  w2 = w2
  n1 = n1
  n2 = n2
  r1 = r1
  o1 = o1
  o2 = o2
  Works = {w1, n1, n2, r1}
  Imported = {w1}
  Occurrences = {r1}
  Feedback = {w1}
  Projects = {}
  Principals = {chat}
  Managed = {}
  Ops = {o1, o2}
  Calls = {c1}
  Kinds = {"parent", "retype", "create", "AMEND"}
  MaxVersion = 3
  MaxGrant = 1
  WorkOf <- MCWorkOf
  Authorities <- MCAuthorities
  None = None
SPECIFICATION Spec
SYMMETRY CallSymmetry
INVARIANTS
  ParentsFormAForest
PROPERTIES
  PendingReviewIsCancelledKnowingly
