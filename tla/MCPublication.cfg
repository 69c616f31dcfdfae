SPECIFICATION Spec
CONSTANTS
  p1 = p1  p2 = p2  o1 = o1  o2 = o2  v1 = v1  v2 = v2
  Procs = {p1, p2}
  Ops = {o1, o2}
  Versions = {v1, v2}
  MaxTrees = 2
  MaxFaults = 2
SYMMETRY Symmetric
INVARIANT OutcomeHonest
PROPERTIES PublishesAtomically
CHECK_DEADLOCK FALSE
