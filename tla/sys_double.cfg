SPECIFICATION SystemSpec
CONSTANTS
  Task = {t1}
  Run = {r1, r2}
  Thread = {h1}
  Current = current
  Daemon = {d1, d2}
  Hook = {}
  Proc = {d1, d2}
  Null = Null
  CompletionSource = {"mcp_tool", "scheduler_fallback", "scheduler_exception"}
  CreateArgs <- MCForever
  Runner <- MCExec
  Delays = {Null}
  Reports = {h1, Null}
  Limits = {1}
  Limit = 1
  HookLimit = 1
  HookFilter = {h1}
  NamesRun = {TRUE}
  TurnStatus = {"continue", "pause"}
  UserStatus = {"active"}
  Budget <- MCNoBudget
  CreateUntil = 0
  Jitter <- MCNoJitter
  Lease = 1
  Expire = 3
  Cap = 2
  MaxFailures = 2
  MinDelay = 1
  DefaultDelay = 1
  MaxDelay = 2
  LockWait = 0
  MaxTime = 3
  MaxBare = 0
INVARIANT SingleExecution
