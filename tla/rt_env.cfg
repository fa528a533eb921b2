SPECIFICATION Spec
CONSTANTS
  Pid = {p1, p2, p3}
  Tui = {l1, l2}
  Server = {s1}
  Inherits = {s1}
  Caller = {l1, l2, s1}
  Place = {home, a, b}
  Home = home
  ProcFs = TRUE
  Null = Null
  Budget <- MCOneCreate
SYMMETRY MCSymmetry
PROPERTIES
  OwnRuntime
CHECK_DEADLOCK FALSE
