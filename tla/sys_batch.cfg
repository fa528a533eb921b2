SPECIFICATION SystemSpec
CONSTANTS
  Task = {t1, t2}
  Run = {r1, r2}
  Thread = {h1}
  Current = current
  Daemon = {d1, d2}
  Hook = {}
  Proc = {d1, d2}
  Null = Null
  CompletionSource = {"mcp_tool", "scheduler_fallback", "scheduler_exception"}
  CreateArgs <- MCTwoPolicies
  Runner <- MCCodexMcp
  Delays = {Null}
  Reports = {h1, Null}
  Limits = {1, 2}
  Limit = 2
  HookLimit = 1
  HookFilter = {h1}
  NamesRun = {TRUE}
  TurnStatus = {"continue"}
  UserStatus = {"active"}
  Budget <- MCOneBind
  CreateUntil = 0
  Jitter <- MCNoJitter
  Lease = 1
  Expire = 3
  Cap = 2
  MaxFailures = 2
  MinDelay = 1
  DefaultDelay = 1
  MaxDelay = 2
  LockWait = 0
  MaxTime = 2
  MaxBare = 0
SYMMETRY MCSymmetry
INVARIANTS
  RunHasOneExecutor
  RepeatedFailuresPause
PROPERTIES
  PreflightFailsOwnRun
