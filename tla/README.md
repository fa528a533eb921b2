# Codex Loop in TLA+

A verification development for Codex Loop: TLA+ models of the durable store and
of the processes that share it, TLC configurations that check them on small
instances, and theorems that TLAPS proves for every value of the constants.
Source paths below are relative to
`src/plugins/codex-loop/scripts/codex_loop/` unless they start with `src/`.

## 1. The system

Codex Loop repeats a prompt on a schedule. A *task* is a row of `loop_tasks`; an
*iteration* of it is a row of `loop_runs` with a durable run id. Several
independent processes open the same SQLite database and never talk to each
other: everything they agree on is in these two tables.

| Component | State it keeps | Operations | Interacts by |
|---|---|---|---|
| Store, `store.py`, `models.py` | `loop_tasks`, `loop_runs` | create, update_status, request_cancel, bind, replace thread, expire, acquire, complete, abort, migrate | SQLite transactions; 30 s lock wait |
| Scheduler daemon, `scheduler.py` | the batch of `LoopTask` snapshots of this round, the runner | `run_once`: expire, acquire, preflight, run, rebind, report; `run_daemon` loops | calls the store and a runner |
| Runners, `scheduler.py`, `app_server.py`, `stdio_mcp_client.py` | a child process or a websocket | run one Codex turn, wait for it, report its thread | the turn itself calls `loop_complete_iteration` |
| Stop hook, `hook.py` | none | expire, acquire for its session, hand the first task to the session; bind a created task | calls the store when a session stops |
| MCP tools, `mcp_server.py` | the store of the active runtime | create, list, update, delete, bind, complete | called by a model in a turn, or for a user |
| CLI, `cli.py` | none | the same operations | called by a user |
| Daemon manager, `daemon.py` | pid file, log | status, ensure running | called by `loop_create` and by the launcher |
| TUI launcher, `tui.py` | app-server and daemon processes, token file | start and stop a runtime | writes the active runtime, starts a daemon |
| Active runtime, `runtime_state.py` | `active-runtime.json` | write, apply to the environment, clear | read by every process |
| Parser, prompts | none | parse `/loop` arguments, resolve prompts | called on creation |

What is hard about it:

* **Several writers, one row.** The model in the turn, the daemon that waits for
  the turn, a sweep in another daemon, a failed preflight and a user may all end
  the same iteration. A run must end once and be counted once.
* **Time.** A lease (30 min) is shorter than a turn (60 min) and much shorter
  than a batch of turns. A timestamp is read before the wait for the database
  lock, so a transaction may commit with an old `now`.
* **Two-statement expiry.** `expire_due_tasks` is not a transaction.
* **Snapshots.** A daemon acts on the rows it acquired, possibly hours ago.
* **Crashes.** Nothing but a lease or an expiry recovers what a dead daemon held.
* **Commitments of the documentation**: a cap per thread, leases that exclude
  concurrent execution, idempotent completion, cancellation that stops a task.

What makes each part correct:

* Store: rows are coherent; a run ends once; `run_count` is exact; an open run
  is always accounted for; retired tasks are not revived by accident; the cap.
* Daemon and hook: an iteration has one executor; a turn begins only when no
  earlier iteration of its task may still report (`BeginsAfterReports`; one that
  never will takes the place of the next); an abort hits the right run;
  `max_runs` bounds what is executed; due tasks are served; crashes lose nothing
  for ever.
* Daemon manager: at most one daemon per pid file; what it reports as running
  runs; a recorded daemon serves the database of its runtime.
* Launcher and active runtime: an exit stops what the launcher started and
  harms nothing else; the file names no runtime whose launchers are gone.
* Clients: an answer is matched with its own request, a completion with its own
  turn; every wait ends if the server answers or dies.

## 2. Modules

| Module | What it is |
|---|---|
| `LoopStore` | the two tables, the clock, and one action per store operation; any caller may make any call |
| `RunLedger` | what the store promises about run ids: opened fresh, ended once, counted at most with their end |
| `LoopSystem` | `LoopStore` and the processes: daemons, Stop hooks, turns, users, crashes |
| `DaemonManager` | processes, pid files, and `ensure_daemon_running` by any number of callers |
| `Launcher` | `DaemonManager` with its callers: TUI launchers, the active-runtime file, and MCP servers that create tasks |
| `TurnCalls` | what a daemon may rely on when it calls `runner.run` |
| `RunnerClient` | the two JSON-RPC clients that run turns, against an external server |
| `MCLoopStore`, `MCLoopSystem`, `MCLauncher`, `MCRunnerClient` | constants for TLC |
| `LoopStoreProofs` | proofs about the store: types, rows, ownership of runs |
| `LoopLedgerProofs` | on top of it: what a step does to one row and one run, exact counts, the refinement of `RunLedger` |
| `LoopSystemProofs` | on top of it: the composed system refines the store, its types, one executor per run |
| `LoopTurnsProofs`, `LoopPreflightProofs` | on top of it: turns, budgets, failures, retired tasks; preflights on old snapshots |
| `LauncherProofs` | types of launchers and calls, the active-runtime file |
| `DaemonProofs` | on top of it: pid files, reports, one daemon per directory, the exit of a launcher |
| `RunnerClientProofs` | types of the clients, the refinement of `TurnCalls` |

### LoopStore

`tasks` and `runs` hold one record per row, or `Null`. Columns no `UPDATE`
writes (schedule, interval, `max_runs`, visibility policy, runner) are `args`.
Columns nobody branches on (prompt, summaries, cwd, snapshots of approval,
sandbox and model, `updated_at`, `last_run_at`) are left out. `binding_status`
is the Boolean `bound`: the code only ever writes `pending` and `bound`.

| Code | Action |
|---|---|
| `create_task` | `CreateTask` (the cap is its guard: the exception changes nothing) |
| `update_status` | `UpdateStatus` |
| `request_cancel` | `RequestCancel` |
| `bind_task_thread`, `replace_task_thread_id` | `BindTaskThread`, `ReplaceTaskThread` |
| `expire_due_tasks` | `ExpireRuns`, then `ExpireTasks`, or `AbandonSweep` |
| `acquire_due_tasks` | `AcquireDueTasks`: lease sweep, selection, claims and new runs in one step |
| `complete_iteration` | `CompleteAgain`, `CompleteRun`, `CompleteBare` |
| `abort_current_run` | `AbortCurrentRun` |
| `_migrate_loop_tasks` | `OpenStore` |

A call that raises (`KeyError`, an unsupported status) rolls back and is a step
that does not happen. The clock `now` ticks by itself; an operation carries a
timestamp `c \in Stamp`, up to `LockWait` older than the clock. `sweep[p]` is the
timestamp of a process between the two statements. `bare` and `detached` are
history variables: completions that ended no run, and runs that a caller took
away from a running task on purpose.

A completion may report any thread of the constant `Reports`. The code does not
test what is reported: a caller that names the placeholder `current` sends a
bound task back to it without a change of `binding_status`. `BoundIsConcrete`
therefore assumes `Current \notin Reports`; nothing else does.

### LoopSystem

A daemon goes `idle -> sweep -> acquire -> task -> running -> rebind -> report`
and back to `task` until its batch is empty. `batch[d]` are the snapshots,
`result[d]` what `runner.run` returned. `turn[r]` says whether the Codex turn of
run `r` has begun, is live or is over; a live turn may call
`loop_complete_iteration` any number of times (`TurnReports`), also after its
daemon stopped waiting: `codex exec` is killed by its timeout, the other runners
only stop listening, and may even take something else for the end of their turn
(`TurnReturns`, by what `RunnerClient` shows). A runner reports no thread
(`codex exec`), the one it found in an answer (codex-mcp), or the one app-server
says it resumed or started, which need not be the one asked for
(`ReportedThreads`); a turn reports any of `Reports`. The hook catches every
exception of its sweep or of its acquisition (`HookGivesUp`). A Stop hook's turn belongs to no daemon. `Crash` forgets a
daemon's batch; `Restart` opens the store again. A user creates, updates,
cancels and binds. `updated` and `resumes` are history variables: the tasks on
which `loop_update` was called, and how often a user made a task active again
that was not, by `loop_update` or by a bind.

Not in the composed model: completions through the CLI (they are in
`LoopStore`), and users who create tasks after `CreateUntil`.

### DaemonManager and Launcher

A *place* is a runtime directory: the pid file, the database and the log that
go with one app-server url. `os[p]` is the process that has pid `p`: a
`codex-loopd` with its place, its database, its parent and the caller that
started it, or some other program. A child that died stays as a zombie until
its parent polls it or ends (`Dead`, `Reaped`, `Orphaned`); a pid that is free
may be given out again, also to a stranger. `call[c]` is where caller `c` is in
`ensure_daemon_running`, `status[c]` what its last call returned.

| Code | Actions |
|---|---|
| `ensure_daemon_running` | `Finds`, or `Misses`, `Spawns`, and after the grace period `ExitsAtOnce` or `Records`; `CutOff` when it is interrupted |
| `is_pid_running`, `daemon_status` | `IsPidRunning` (zombies told apart only with `ProcFs`), `Running` |
| `write_active_runtime` | `WritesTmp`, `Replaces`, `Chmods`; every launcher writes the same temporary file |
| body of `launch_tui` | `StartsServer` or `UsesServer`, `ServerAnswers` or `SkipsLoopd`, `OpensTui`, `Closes` |
| its `finally` | `Compares`, `Unlinks` (`clear_active_runtime`), `StopsServer`, `HaltsLoopd` |
| KeyboardInterrupt, kill | `Interrupted`, which with `--keep-running` goes past the clean-up, and `Killed`, at each of these points |
| `current_store`, `loop_create` | `OtherTool`; `LoopCreate`, `ChoosesStore`, `Resolves`, then a call |
| `apply_active_runtime_to_env`, `active_runtime_value` | `Applied`, `EnvOrFile` |

An MCP server lives in a session of some TUI and either inherited its
environment (`Inherits`) or did not. The keys of a runtime go together as one
value, so a file without a token key over an environment with one is left out,
as are a `--db` outside the runtime directory and a switched-off autostart.
`freed`, `excused` and `cut` are history variables that only name exceptions.

### RunnerClient and TurnCalls

One runner works on `Runs` iterations of a task, one after another. `kind` says
which client it is: the app-server runner opens a connection per run, sends
`initialize`, `thread/resume` or `thread/start`, and `turn/start`, and waits for
`turn/completed`. An answer to `thread/start` that names no thread ends the run
(`NoThread`). The codex-mcp runner lists the tools and calls one, over one
server process it keeps. `inbox` is what the server sent, in order; `pending` is
`pending_notifications`. The server is external: it takes the requests of one
run in order but may finish a turn before it answers, refuse, leave the turn id
out, die, end turns of other clients on the thread, and send requests with
numbers of its own. `TurnCalls` is the abstract side: a run is reported
completed only when its turn is over, failed only when it is over or never began.
`LoopSystem` is built on that (`TurnReturns`, `RunnerSkipsTurn`, `Raised`).

## 3. Runs

Every bound is a constant: `MaxTime` (clock), `MaxBare` (completions without a
run), `Budget` (loop_update, bind, crash), `CreateUntil`, and the sizes of the
sets. Expiry, lease and delays are a few ticks, so that each of them ends before
and after each other within `MaxTime`.

| Run | Instance | Checks |
|---|---|---|
| `store_core` | 1 task, 2 runs, 1 sweeper, fixed and dynamic schedules, `max_runs` 2, timestamps up to one tick old, clock to 2 | type, coherent rows, owned runs, explained orphans, exact count, concrete bindings, runs end once, no accidental revival |
| `sys_safety` | 1 task, with `max_runs` 1 or none, 2 runs, 2 codex-mcp daemons, 1 crash, 1 bind, old timestamps, clock to 3 | type, `TurnsWithinMaxRuns`, `OneOpenTurn`, `RetiredForGood`, `BeginsAfterReports` |
| `sys_hook` | the same task with 1 `codex exec` daemon, 1 Stop hook, 1 loop_update to `active`, turns that may omit their run id, 1 bare completion, fresh timestamps | `TurnsWithinMaxRuns`, `OneOpenTurn`, `RunHasOneExecutor`, refinement of `RunLedger` (`LedgerSpec`) |
| `sys_batch` | 2 tasks of two policies, 2 codex-mcp daemons, batches of two, 1 bind, pause after 2 failures, clock to 2 | `RunHasOneExecutor`, `PreflightFailsOwnRun`, `RepeatedFailuresPause` |
| `sys_live` | 1 task, 1 daemon, 1 crash, 1 loop_update, clock to 3, fairness | `EveryTaskRetires`, `LostIterationReleased`, `DueTaskServed`, `StoreSpec` |
| `rt_launch` | 2 launchers, 1 MCP server without their environment, 2 pids, 2 runtimes and the default place, 1 death, 1 stranger, 1 `loop_create`, 1 kill or interrupt | type, `OneDaemon`, `ReportedDaemonAlive`, `ExitStopsOwn`, `ExitHarmsNoOther`, `ActiveHasLauncher`, `RecordedDaemonServes` |
| `runner` | both clients, 2 runs, 1 turn of another client, 1 request of the server, 1 broken connection, fairness | type, refinement of `TurnCalls` (`CallsSpec`), `EveryRunReturns` |
| `store_cap` | cap 1, 2 tasks | `CapPerThread` is violated |
| `sys_double` | 2 daemons | `SingleExecution` is violated |
| `sys_cancel` | 1 daemon, a bind | `NoIterationAfterCancel` is violated |
| `sys_count` | turns that omit the run id | `CountedOnce` is violated |
| `rt_env` | 2 launchers, an MCP server that inherited an environment | `OwnRuntime` is violated |

Why this is enough to be of use: every interleaving the list of hazards names
needs at most two processes, two runs of one task and one crash or edit. Two
tasks matter only where a batch does (`sys_batch`) and for the cap. The bounded
clock reaches past lease, due time and expiry; tasks are created early enough.
For the launchers, two callers of one place are what every race of
`ensure_daemon_running`, of the active-runtime file and of an exit takes, with
two pids so that a second daemon can be there, and one fault of each kind. For
the clients, two runs are needed for answers and turns that come a run late.
`CHECK_DEADLOCK` stays on for the store and the composed system: `ClientOpens` is
always possible. It is off in `rt_launch`, `rt_env` and `runner`, where launchers
end, every run returns, and the system may stop.
The store and the safety runs use symmetry; the fair run does not. In
`sys_batch` timestamps are fresh and the turns only continue, in `sys_hook`
timestamps are fresh and nothing crashes; those choices are varied in
`sys_safety`. `sys_live` has fresh timestamps, because at the end of
the bounded clock an old one would stay old for ever, which no process sees.

### Fairness

`FairSpec` assumes that the clock advances until its bound and that each daemon
keeps taking steps. `run_daemon` loops for ever and sleeps at most
`--poll-seconds`, and the fair run has the runner of which every wait is bounded:
`ExecRunner` passes a timeout to `subprocess.run`. A daemon that died is started
again by the next `loop_create` or by the user, which the code leaves to them and
the run assumes. Nothing is assumed of turns, hooks or users: turns may never
report. With the other runners two waits are not bounded by the code, a JSON-RPC
answer in `_JsonRpc.call` and `readline` in `StdioMcpClient.request`; while one of
them hangs, that daemon serves nobody (listed as a hazard).

`RunnerClient` says what that takes. Its `FairSpec` assumes that the client keeps
reading what has arrived (it blocks on nothing else) and that the server answers
what it owes and ends the turns it began; the deadlines are possible but never
necessary. So `EveryRunReturns` shows that no message is lost by the client, and
what is left to the server.

### What the violations show

1. `CapPerThread`: the cap of `src/plugins/codex-loop/skills/loop/references/loop-semantics.md:7`
   is tested when a task is created; a bind moves a task past it.
2. `SingleExecution`: `src/README.md:330` says leases keep two daemons from
   executing a task concurrently. A turn that reports before it ends releases the
   lease; the next iteration may begin elsewhere while the first daemon waits.
   What does hold is `OneOpenTurn`: only one live turn can still count.
3. `NoIterationAfterCancel`: `src/README.md:333` says a cancelled running task
   stops after its current iteration. When that iteration ends in a failed
   preflight the task is paused, and a bind runs it again.
4. `CountedOnce`: `src/plugins/codex-loop/README.md:163` says completions cannot
   count twice. A completion that omits the optional run id after its run ended
   does. What does hold is `RunCountExact`, which counts those separately.
5. `OwnRuntime`: `src/README.md:108` says the MCP server reads the active-runtime
   file if Codex does not pass on the TUI's environment. It reads it always, and
   the file wins: with two launchers, a session of the first one creates its tasks
   in the runtime of the second. `src/plugins/codex-loop/tests/test_runtime_state.py:33`
   expects the file to win, so the code means it.

Met on the way and stated as exceptions of the properties that hold: a task past
its expiry may be left an open run, and be revived by its completion, when an
acquire with an old timestamp falls between the two statements of a sweep
(`OrphansExplained`, `RetiredForGood`). A task whose last allowed iteration
paused it runs once more than `max_runs` when it is resumed; no document says
whether it should. `TurnsWithinMaxRuns`, `RepeatedFailuresPause` and `OneOpenTurn`
make no exception for such tasks: they count the resumes, and grant one turn, one
failure and one open turn for each (and the last two as much for each completion
that ended no run, which makes a task due as well).
Three exceptions came out of the proofs, where an instance was too small to show
them. `max_runs` is compared after an iteration, so 0 allows one turn like 1
(`Allowed`). A failed preflight does not look at the task's status: a snapshot
whose task has been cancelled or has failed since leaves it paused, from where a
bind resumes it (`PreflightDue` in `RetiredForGood`). And `PreflightFailsOwnRun`
needs turns that name their run: a completion without a run id that an earlier
turn sends late ends the run that waits, the task is acquired again, and the
preflight of the old snapshot ends the new run.
All launchers share one active-runtime file: the one that wrote it last removes
it when it ends, also while the TUI of another is open, whose sessions then find
no runtime (`ActiveHasLauncher` says only that the file never outlives its
launchers).
Two callers that overlap, or one that is cut off between the spawn and the pid
file, leave a second daemon (`OneDaemon`); a `loop_create` that knew no runtime
and straddles the start or end of a launcher starts a daemon whose database is
not that of its pid file (`RecordedDaemonServes`); a pid that was freed and given
out again counts as a daemon, and may be terminated by the launcher whose daemon
had it (`ReportedDaemonAlive`, `ExitHarmsNoOther`); a request of the server that
has the awaited id is taken for the answer, and an answer without a turn id lets
the end of any turn on the thread end the run (`confused`). Without `/proc`
(`ProcFs = FALSE`) a zombie counts as a running daemon.

## 4. Proofs

All theorems hold for any number of tasks, runs, threads, daemons, hooks,
launchers, servers, pids and directories, any batch sizes, durations and bounds
on faults. Every invariant and action property of the passing runs, and each of
the three refinements, is stated by a theorem. What is assumed of the constants:

* `ConstantsAssumption`, `ArgsAssumption`, `NullAssumption` (`LoopStore`): the
  kinds of the constants; `Null` is no value of theirs; leases, expiry and least
  delay are positive. `SystemAssumption`, `ResultAssumption` (`LoopSystem`): there
  are finitely many tasks, and what a runner returns is no `Null`.
* `DaemonAssumption` and `NullAssumption` of `DaemonManager`, `LauncherAssumption`:
  the kinds of the constants, and that a record is not `Null`.
* `ClientAssumption` (`RunnerClient`): the bounds are numbers.

Four results hold under a hypothesis of their own: `BoundIsConcrete` asks that
nobody reports the placeholder thread, `PreflightFailsOwnRun` and
`BeginsAfterReports` that turns name their runs, and the theorem `ReportsAlive` that zombies can be told (`ProcFs`).

### The store

* `Typing`, `RunsEndOnce`: type correctness, action by action; the one-writer
  property follows because each of the five writers tests `status = 'running'`.
* `RowsCoherent`: `RowsOK` is inductive on its own, since every action rewrites
  a whole row coherently (`RowOK`). `BindingsConcrete` is the part of it about
  threads.
* `StoreInvariant`: `CurrentRunOwned` and `OrphansExplained` (together
  `Ownership`) are not inductive. `StoreInv` adds `RowsOK`, since a task that
  carries a run must be running for the lease sweep and the expiry to find it,
  and `SweepsPast`: the timestamp a process carries from the first statement of
  an expiry to the second has been reached by the clock. So whatever the first
  statement failed and the second retires, also a task that was acquired, bound
  or completed in between, is past its expiry by then, which is the exception
  both properties make. From it follow `CurrentRunsOwned` and
  `OpenRunsExplained`.
* `RunsCounted`: `LoopLedgerProofs` first says what any step does to one row and
  to one run (`Plain`, `Completes`, `CompletesBare`; whatever is none of the
  last two is `Uncounted`), so that later proofs split on effects and not on
  operations. `CountInv` then
  adds that every run belongs to a stored task and that an open one bears no
  completion source (`RunsFiled`); the rest is counting finite sets.
* `StoreImplementsLedger`: every step opens fresh runs, ends an open one, with or
  without a count, or stutters for the ledger, by the same effects.
* `RevivedOnPurpose`: an action property, from the effects alone.

### The composed system

* `SystemImplementsStore`: every step of daemons, hooks, turns, users and crashes
  is a `Next` step of the store or leaves it alone; so all of the above holds in
  the composed system (`SystemKeepsStore`, `SystemCounts`).
* `SystemTypes`, `OneExecutorPerRun`: `SystemInv` adds to typing that a daemon's
  work is well formed (`Work`: snapshots of recorded runs of their own task,
  results only when a turn returned) and that no run is in two hands (`Hands`);
  acquiring keeps it because run ids are fresh.
* `TurnsInvariant`: `TurnsInv` is what `OneTurnCounts`, `TurnsBounded`,
  `FailuresPause` and `RetiredStaysRetired` rest on. `NoOrphan`: an open run of a task on
  which `loop_update` was not called is its current run, or the task is past its
  expiry. `TurnBudgets` holds for every stored task,
  updated, resumed or expired. `Unreported(t)` are its runs that no completion
  reported (open, or written off by a sweep, an abort or `loop_update`), `Debt(t)`
  their number, and `Slack(t)` how often the task was made due from outside,
  by a resume or by a completion that ended no run. `Room(t, n)` says that `n`
  more runs fit: the debt stays within `1 + Slack`, and the debt on top of the
  failures, or of the runs counted, within its limit and `Slack`. A task always
  has `Room(t, 0)`, and `Room(t, 1)` while it is due. Acquiring turns the room
  into debt; a completion pays a unit of debt for a count, and makes the task due
  only below its limits; the lease sweep and an abort leave the debt but take the
  task out of circulation; a resume makes it due with a unit of slack more.
  `CurrentUnreported` says that the run a task carries is part of its debt, so that
  also a running task has failures to spare (`FailuresPause`). The second half of `OneOpenTurn`, at most one open turn without
  update or expiry, comes from `NoOrphan`.
* `PreflightsInvariant`: a run that waits in a batch has no turn, so only its own
  daemon, a sweep or the expiry can end it. `Preflights` says that its task still
  carries it or has failed or been cancelled, and that no other run of the task
  waits anywhere. `PreflightsEndOwnRun` follows.
* `TurnsBeginAfterReports`: `UnbegunUnreported` adds that, where turns name their
  runs, no run without a turn has been reported, since only its turn and the
  daemon that began it report it. So the run a turn begins with is part of its
  task's debt, which `TurnBudgets` bounds.

### Launchers and daemons

* `LauncherTypes`: `TypesInv` adds which stage of a call knows its directory and
  database, and that a launcher and a server with a runtime of its own ask for
  that one (`CallsAre`).
* `ActiveOwned`: `Listed` says of the temporary file and of the active file that
  a launcher of the runtime in it has not gone past its clean-up. The temporary
  file is needed because one launcher renames what another has written.
* `NamesInv`: while a call waits out the grace period its daemon is a child of
  the caller (`Children`), a pid file names a daemon of its directory or a freed
  pid (`Files`), and so does an answer that says `started` (`Reports`). Every step
  is first reduced to the fate of each pid (`StepFates`: kept, gone, born, or
  given to a stranger once freed) and the course of each call (`StepCourses`).
  From it follow `RecordsServe`, `ReportsAlive` and `ExitHarmless`.
* `ExitLeavesNothing`: `EndInv` adds that a live daemon of a launcher is the one
  its call or its answer names (`Owned`), which is what `HaltsLoopd` ends.
* `OneDaemonEach`: `Sole` adds that a directory that no overlap or cut-off
  excuses has at most one call between its look at the pid file and its answer,
  and every daemon there is the child of that call or the one in the pid file.

### The clients

* `ClientInvariant`: `ClientInv` ties messages to requests. `Numbers` and `Owes`:
  over a connection that is kept, request ids grow and stay at most twice the
  run, and what is owed under the awaited id is the awaited request; the
  app-server runner starts from 1, on a connection of its own. `Truths`: a
  `turn/completed` or a positive answer of the tool in `inbox` or `pending` was
  true when sent and stays true, since turns do not revive. `Begun`: before its
  tool call a run has no turn, and a client that waits knows its turn by name or
  is confused. `ClientTypes` follows.
* `ClientImplementsCalls`: from it, step by step: what returns `completed` has
  its own turn over or is confused, what returns `failed` for want of a tool has no turn,
  a turn begins only in a run that has been reached, and everything else stutters.

### Only model-checked

Liveness: `EveryTaskRetires`, `LostIterationReleased`, `DueTaskServed` and
`EveryRunReturns` rest on fairness, hence on `ENABLED`, which the prover does not
handle. The five violations are counterexamples of TLC and have nothing to
prove. Everything else that a run checks is also proved.

## 5. Plan

Done: the four models with their runs, and theorems for every safety property
and refinement those runs check.

Next, in this order:

1. What the hazards without a property ask for: a hook that is handed a task its
   runner could not serve, and a `loop_create` that commits and then fails to
   start a daemon.
2. For the liveness properties, the safety halves that can be proved: that no
   sweep, abort or report ever moves an expiry or the lease of a held run forward.
3. A cap per thread as it does hold (at creation, and between binds), as an
   action property of `LoopStore`, with its proof.

### Not modelled

* `parser.py`: a pure function of one line of text. What it can hand to the store
  is in `CreateArgs`: a fixed interval of at least a minute, or none.
* `prompts.py`, and the prompt a daemon builds: a file is looked up and read, or
  text is put together; nothing branches on it.
* The hook's search for ids in an event, and the CLI's arguments: reading of text.
  The thread a hook acquires for is a parameter (`HookFilter`).
* JSON-RPC framing of the MCP server, tokens, urls, ports, command lines, logs.
* Loss of the file system or of the database, and an operating system that is
  restarted: nothing in the code handles either.

## 6. Running it

    tlc -workers 2 -config store_core.cfg MCLoopStore
    tlc -workers 2 -config sys_safety.cfg MCLoopSystem
    tlc -workers 2 -config rt_launch.cfg MCLauncher
    tlc -workers 2 -config runner.cfg MCRunnerClient
    tlapm LoopStoreProofs.tla
    tlapm LoopLedgerProofs.tla
    tlapm LoopSystemProofs.tla
    tlapm LoopTurnsProofs.tla
    tlapm LoopPreflightProofs.tla
    tlapm LauncherProofs.tla
    tlapm DaemonProofs.tla
    tlapm RunnerClientProofs.tla
