SPECIFICATION Spec
CONSTANTS
  Task = {t1}
  Run = {r1, r2}
  Thread = {h1}
  Current = current
  Proc = {p1}
  Null = Null
  CompletionSource = {"mcp_tool"}
  CreateArgs <- MCTwoKinds
  Delays = {Null}
  Reports = {h1, Null}
  Limits = {1}
  Jitter <- MCNoJitter
  Lease = 1
  Expire = 2
  Cap = 2
  MaxFailures = 2
  MinDelay = 1
  DefaultDelay = 1
  MaxDelay = 2
  LockWait = 1
  MaxTime = 2
  MaxBare = 1
SYMMETRY MCSymmetry
INVARIANTS
  TypeOK
  LeaseConsistent
  CurrentRunOwned
  OrphansExplained
  RunCountExact
  BoundIsConcrete
PROPERTIES
  RunEndsOnce
  ReviveOnlyByResumeOrCompletion
