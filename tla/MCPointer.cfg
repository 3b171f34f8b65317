SPECIFICATION Spec
SYMMETRY Symmetry
CONSTANTS
  Strong = {p1, p2, p3}
  Weak = {w1, w2}
  Addresses = {x1, x2}
  None = None
INVARIANTS CountsExact NothingLeaks ExistsIsAlive NoDoubleDelete
CHECK_DEADLOCK FALSE
