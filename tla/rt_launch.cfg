SPECIFICATION Spec
CONSTANTS
  Pid = {p1, p2}
  Tui = {l1, l2}
  Server = {s1}
  Inherits = {}
  Caller = {l1, l2, s1}
  Place = {home, a, b}
  Home = home
  ProcFs = TRUE
  Null = Null
  Budget <- MCOneEach
SYMMETRY MCSymmetry
INVARIANTS
  LauncherTypeOK
  OneDaemon
  ExitStopsOwn
  ActiveHasLauncher
PROPERTIES
  ReportedDaemonAlive
  ExitHarmsNoOther
  RecordedDaemonServes
CHECK_DEADLOCK FALSE
