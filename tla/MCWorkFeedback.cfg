CONSTANTS
  w1 = w1
  w2 = w2
  n1 = n1
  n2 = n2
  r1 = r1
  o1 = o1
  o2 = o2
  Works = {w1, n1, n2}
  Imported = {w1}
  Occurrences = {}
  Feedback = {w1}
  Projects = {proj}
  Principals = {agent}
  Managed = {agent}
  Ops = {o1, o2}
  Calls = {c1}
  Kinds = {"create", "finish", "reopen", "retype", "link", "unlink", "pull_request", "NEW", "AMEND", "DUPLICATE", "SUB-ITEM", "RELATED"}
  MaxVersion = 4
  MaxGrant = 2
  WorkOf <- MCWorkOf
  Authorities <- MCAuthorities
  None = None
SPECIFICATION Spec
SYMMETRY CallSymmetry
INVARIANTS
  WorkIsAccountedFor
PROPERTIES
  EffectsUseTheGrantInForce
