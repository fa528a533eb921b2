SPECIFICATION Spec
CONSTANTS
  Task = {t1, t2}
  Run = {r1}
  Thread = {h1}
  Current = current
  Proc = {p1}
  Null = Null
  CompletionSource = {"mcp_tool"}
  CreateArgs <- MCFixed
  Delays = {Null}
  Reports = {h1, Null}
  Limits = {2}
  Jitter <- MCNoJitter
  Lease = 1
  Expire = 2
  Cap = 1
  MaxFailures = 2
  MinDelay = 1
  DefaultDelay = 1
  MaxDelay = 2
  LockWait = 0
  MaxTime = 1
  MaxBare = 0
INVARIANT CapPerThread
