CONSTANTS
  w1 = w1
  w2 = w2
  n1 = n1
  n2 = n2
  r1 = r1
  o1 = o1
  o2 = o2
  Works = {w1, n1, n2}
  Imported = {w1}
  Occurrences = {}
  Feedback = {}
  Projects = {}
  Principals = {chat, agent}
  Managed = {agent}
  Ops = {o1, o2}
  Calls = {c1, c2}
  Kinds = {"edit", "finish", "append"}
  MaxVersion = 3
  MaxGrant = 2
  WorkOf <- MCWorkOf
  Authorities <- LaunchOnly
  None = None
SPECIFICATION Spec
SYMMETRY CallSymmetry
INVARIANTS
  WorkIsAccountedFor
PROPERTIES
  UnresolvedEffectFreezesWork
