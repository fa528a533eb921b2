---------------------------- MODULE LoopSystem ----------------------------
(***************************************************************************)
(* The processes that share the store: codex-loopd daemons (scheduler.py), *)
(* Stop hooks (hook.py), the Codex turns they start, whose model calls     *)
(* loop_complete_iteration, and users who call the other tools             *)
(* (mcp_server.py, cli.py).  A daemon works on a batch of snapshots taken  *)
(* when the batch was acquired; the rows may change under it.              *)
(***************************************************************************)
EXTENDS LoopStore, Sequences

CONSTANTS
  Daemon, Hook,
  Runner,        \* the runner each daemon was started with
  Limit,         \* --limit of the daemons
  HookLimit,     \* --max-due of the hook
  HookFilter,    \* thread filters a hook may derive from its event
  NamesRun,      \* whether a turn may name its run, or omit it, or either
  TurnStatus,    \* statuses a turn may report
  UserStatus,    \* statuses a user may set with loop_update
  Budget,        \* bounds: how many loop_update, loop_bind_session, crashes
  CreateUntil    \* bound: no task is created later

ASSUME SystemAssumption ==
  /\ IsFiniteSet(Task)
  /\ Proc = Daemon \cup Hook
  /\ Daemon \cap Hook = {}
  /\ Runner \in [Daemon -> {"app-server", "codex-mcp", "exec", "dry-run"}]
  /\ {Limit, HookLimit} \subseteq Limits
  /\ HookFilter \subseteq Thread \cup {Null}
  /\ NamesRun \subseteq BOOLEAN
  /\ TurnStatus \subseteq Reported
  /\ Null \in Delays /\ Thread \cup {Null} \subseteq Reports
  /\ UserStatus \subseteq Settable
  /\ Budget \in [{"update", "bind", "crash"} -> Nat]
  /\ CompletionSource = {"mcp_tool", "scheduler_fallback", "scheduler_exception"}

VARIABLES
  pc,       \* where each process is
  batch,    \* per daemon: snapshots of the acquired tasks still to handle
  result,   \* per daemon: what the runner returned
  turn,     \* per run: its Codex turn has not begun, is live, or is over
  spent,    \* how much of Budget is used
  updated,  \* history: tasks on which loop_update was called
  resumes   \* history: how often a user made a task active again

pvars == <<pc, batch, result, turn, spent, updated, resumes>>
vars  == <<svars, pvars>>

Snapshot == [task : Task, run : Run, thread : Thread \cup {Current}]
Result   == [outcome : {"completed", "failed", "raised"}, thread : Thread \cup {Null}]

ASSUME ResultAssumption == Null \notin Result

SystemTypeOK ==
  /\ TypeOK
  /\ pc \in [Proc -> {"idle", "sweep", "acquire", "task", "running", "rebind",
                      "report", "down"}]
  /\ batch \in [Daemon -> Seq(Snapshot)]
  /\ result \in [Daemon -> Result \cup {Null}]
  /\ turn \in [Run -> {"none", "live", "over"}]
  /\ spent \in [DOMAIN Budget -> Nat]
  /\ updated \subseteq Task /\ resumes \in [Task -> Nat]
  /\ \A p \in Proc : sweep[p] # Null <=> pc[p] = "sweep"
  /\ \A d \in Daemon : pc[d] \in {"task", "running", "rebind", "report"} <=> batch[d] # <<>>
  /\ \A d \in Daemon : pc[d] \in {"rebind", "report"} <=> result[d] # Null

SystemInit ==
  /\ Init
  /\ pc = [p \in Proc |-> "idle"]
  /\ batch = [d \in Daemon |-> <<>>]
  /\ result = [d \in Daemon |-> Null]
  /\ turn = [r \in Run |-> "none"]
  /\ spent = [b \in DOMAIN Budget |-> 0]
  /\ updated = {} /\ resumes = [t \in Task |-> 0]

Goto(p, label) == pc' = [pc EXCEPT ![p] = label]

Spend(b) == spent[b] < Budget[b] /\ spent' = [spent EXCEPT ![b] = @ + 1]

Job(d) == Head(batch[d])

\* Mutant: the end of the batch is not noticed.
NextJobAlways(d) ==
  /\ batch' = [batch EXCEPT ![d] = Tail(@)]
  /\ Goto(d, "task")

\* The next snapshot of the batch, or the next round.
NextJob(d) ==
  /\ batch' = [batch EXCEPT ![d] = Tail(@)]
  /\ Goto(d, IF Len(batch[d]) = 1 THEN "idle" ELSE "task")

-----------------------------------------------------------------------------
(* expire_due_tasks, as a daemon and a hook call it *)

BeginSweep(p) ==
  /\ pc[p] = "idle"
  /\ \E c \in Stamp : ExpireRuns(p, c)
  /\ Goto(p, "sweep")
  /\ UNCHANGED <<batch, result, turn, spent, updated, resumes>>

EndSweep(p) ==
  /\ pc[p] = "sweep"
  /\ ExpireTasks(p)
  /\ Goto(p, "acquire")
  /\ UNCHANGED <<batch, result, turn, spent, updated, resumes>>

\* The tasks of a batch in the order of next_run_at.
Orders(S) ==
  {s \in Bijection(1..Cardinality(S), S) :
     \A i, j \in DOMAIN s : i < j => tasks[s[i]].next <= tasks[s[j]].next}

\* acquire_due_tasks; order lists the tasks it returns.
Acquires(claim, order, c, limit, th) ==
  /\ DOMAIN claim \in Batches(Due(c, th), limit)
  /\ order \in Orders(DOMAIN claim)
  /\ AcquireDueTasks(claim, c, limit, th)

\* What the caller keeps of the rows it acquired.
Snapshots(claim, order) ==
  [i \in DOMAIN order |-> [task   |-> order[i],
                           run    |-> claim[order[i]],
                           thread |-> tasks[order[i]].thread]]

-----------------------------------------------------------------------------
(* One round of the daemon, run_once *)

DaemonAcquires(d) ==
  /\ pc[d] = "acquire"
  /\ \E c \in Stamp : \E S \in Batches(Due(c, Null), Limit) :
       \E claim \in Injection(S, FreshRun), order \in Orders(S) :
         /\ Acquires(claim, order, c, Limit, Null)
         /\ batch' = [batch EXCEPT ![d] = Snapshots(claim, order)]
         /\ Goto(d, IF S = {} THEN "idle" ELSE "task")
  /\ UNCHANGED <<result, turn, spent, updated, resumes>>

\* _preflight_block_reason, which looks at the snapshot.
Blocked(d, job) ==
  LET args == tasks[job.task].args
  IN  \/ args.runner # Runner[d]
      \/ args.visibility \in {"visible_only", "thread_only"} /\ job.thread = Current
      \/ args.visibility = "visible_only" /\ Runner[d] # "app-server"
      \/ args.visibility = "thread_only" /\ Runner[d] \notin {"app-server", "codex-mcp"}

\* Mutant: the blocked task stays in the batch and is tried again.
PreflightRetries(d) ==
  /\ pc[d] = "task"
  /\ Blocked(d, Job(d))
  /\ AbortCurrentRun(Job(d).task, "paused")
  /\ UNCHANGED <<pc, batch, result, turn, spent, updated, resumes>>

PreflightBlocks(d) ==
  /\ pc[d] = "task"
  /\ Blocked(d, Job(d))
  /\ AbortCurrentRun(Job(d).task, "paused")
  /\ NextJob(d)
  /\ UNCHANGED <<result, turn, spent, updated, resumes>>

TurnBegins(d) ==
  /\ pc[d] = "task"
  /\ ~Blocked(d, Job(d))
  /\ Runner[d] # "dry-run"
  /\ turn' = [turn EXCEPT ![Job(d).run] = "live"]
  /\ Goto(d, "running")
  /\ UNCHANGED <<svars, batch, result, spent, updated, resumes>>

\* run_once rebinds a background task that had no thread of its own.
Rebinds(d, res) ==
  /\ res.thread # Null
  /\ Job(d).thread = Current
  /\ tasks[Job(d).task].args.visibility = "background_ok"

Returns(d, res) ==
  /\ result' = [result EXCEPT ![d] = res]
  /\ Goto(d, IF Rebinds(d, res) THEN "rebind" ELSE "report")
  /\ UNCHANGED <<svars, batch, spent, updated, resumes>>

Raised == [outcome |-> "raised", thread |-> Null]

\* dry-run runs nothing; codex-mcp may lack the tool it needs; starting the
\* turn may raise.
NoTurnOutcomes(kind) == CASE kind = "dry-run"   -> {"completed"}
                          [] kind = "codex-mcp" -> {"failed", "raised"}
                          [] OTHER              -> {"raised"}

RunnerSkipsTurn(d) ==
  /\ pc[d] = "task"
  /\ ~Blocked(d, Job(d))
  /\ \E outcome \in NoTurnOutcomes(Runner[d]) :
       Returns(d, [Raised EXCEPT !.outcome = outcome])
  /\ UNCHANGED turn

\* The thread a runner reports: none from codex exec, whatever id is found in
\* the answer of codex-mcp, the one that app-server says it resumed or started.
ReportedThreads(d) == CASE Runner[d] = "codex-mcp"  -> Thread \cup {Null}
                        [] Runner[d] = "app-server" -> Thread
                        [] OTHER                    -> {Null}

\* The turn is over, unless the client took something else for its end, as
\* RunnerClient shows it may.
TurnReturns(d) ==
  /\ pc[d] = "running"
  /\ \E outcome \in {"completed", "failed"}, th \in ReportedThreads(d) :
       Returns(d, [outcome |-> outcome, thread |-> th])
  /\ \/ turn' = [turn EXCEPT ![Job(d).run] = "over"]
     \/ Runner[d] \in {"app-server", "codex-mcp"} /\ UNCHANGED turn

\* The turn timed out or its connection broke.  subprocess.run kills the exec
\* child; the other runners stop waiting for a turn that goes on.
TurnRaises(d) ==
  /\ pc[d] = "running"
  /\ Returns(d, Raised)
  /\ turn' = IF Runner[d] = "exec" THEN [turn EXCEPT ![Job(d).run] = "over"] ELSE turn

Rebind(d) ==
  /\ pc[d] = "rebind"
  /\ ReplaceTaskThread(Job(d).task, result[d].thread)
  /\ Goto(d, "report")
  /\ UNCHANGED <<batch, result, turn, spent, updated, resumes>>

Report(d) ==
  /\ pc[d] = "report"
  /\ \E c \in Stamp :
       CompleteIteration(Job(d).task, Job(d).run,
         IF result[d].outcome = "completed" THEN "continue" ELSE "failed",
         Null, result[d].thread,
         IF result[d].outcome = "raised" THEN "scheduler_exception"
         ELSE "scheduler_fallback", c)
  /\ result' = [result EXCEPT ![d] = Null]
  /\ NextJob(d)
  /\ UNCHANGED <<turn, spent, updated, resumes>>

\* The daemon is killed, or the database stays locked and run_daemon ends with
\* the exception.  A turn it started goes on.
Crash(d) ==
  /\ pc[d] # "down"
  /\ Spend("crash")
  /\ IF pc[d] = "sweep" THEN AbandonSweep(d) ELSE UNCHANGED svars
  /\ Goto(d, "down")
  /\ batch' = [batch EXCEPT ![d] = <<>>]
  /\ result' = [result EXCEPT ![d] = Null]
  /\ UNCHANGED <<turn, updated, resumes>>

\* Mutant: a daemon that starts takes the running tasks back.
RestartReleasing(d) ==
  /\ pc[d] = "down"
  /\ tasks' = [t \in Task |-> IF t \in Stored /\ tasks[t].status = "running"
                              THEN Release(tasks[t], "active") ELSE tasks[t]]
  /\ Goto(d, "idle")
  /\ UNCHANGED <<runs, now, sweep, bare, detached, batch, result, turn, spent, updated, resumes>>

Restart(d) ==
  /\ pc[d] = "down"
  /\ OpenStore
  /\ Goto(d, "idle")
  /\ UNCHANGED <<batch, result, turn, spent, updated, resumes>>

-----------------------------------------------------------------------------
(* The Stop hook *)

\* The first task acquired becomes the next turn of the session, unless the
\* hook's answer is lost; nobody runs the others.
HookAcquires(h) ==
  /\ pc[h] = "acquire"
  /\ \E c \in Stamp, th \in HookFilter : \E S \in Batches(Due(c, th), HookLimit) :
       \E claim \in Injection(S, FreshRun), order \in Orders(S), heard \in BOOLEAN :
         /\ Acquires(claim, order, c, HookLimit, th)
         /\ turn' = IF heard /\ S # {} THEN [turn EXCEPT ![claim[order[1]]] = "live"]
                    ELSE turn
  /\ Goto(h, "idle")
  /\ UNCHANGED <<batch, result, spent, updated, resumes>>

\* main catches every exception, of the sweep or of the acquisition, and lets
\* the session stop.
HookGivesUp(h) ==
  /\ pc[h] \in {"sweep", "acquire"}
  /\ IF pc[h] = "sweep" THEN AbandonSweep(h) ELSE UNCHANGED svars
  /\ Goto(h, "idle")
  /\ UNCHANGED <<batch, result, turn, spent, updated, resumes>>

-----------------------------------------------------------------------------
(* Turns and users *)

TurnReports(r) ==
  /\ turn[r] = "live"
  /\ \E named \in NamesRun, st \in TurnStatus, d \in Delays, th \in Reports, c \in Stamp :
       CompleteIteration(runs[r].task, IF named THEN r ELSE Null, st, d, th, "mcp_tool", c)
  /\ UNCHANGED pvars

TurnEnds(r) ==
  /\ turn[r] = "live"
  /\ turn' = [turn EXCEPT ![r] = "over"]
  /\ UNCHANGED <<svars, pc, batch, result, spent, updated, resumes>>

UserCreates(t) ==
  /\ now <= CreateUntil
  /\ \E args \in CreateArgs, th \in Thread \cup {Current}, c \in Stamp :
       CreateTask(t, args, th, c)
  /\ UNCHANGED pvars

CountsResume(t) ==
  resumes' = IF tasks[t].status # "active" /\ tasks'[t].status = "active"
             THEN [resumes EXCEPT ![t] = @ + 1] ELSE resumes

UserUpdates(t) ==
  /\ Spend("update")
  /\ \E st \in UserStatus : UpdateStatus(t, st)
  /\ CountsResume(t)
  /\ updated' = updated \cup {t}
  /\ UNCHANGED <<pc, batch, result, turn>>

UserCancels(t) == RequestCancel(t) /\ UNCHANGED pvars

UserBinds(t) ==
  /\ Spend("bind")
  /\ \E th \in Thread, resume \in BOOLEAN : BindTaskThread(t, th, resume)
  /\ CountsResume(t)
  /\ UNCHANGED <<pc, batch, result, turn, updated>>

ClientOpens == OpenStore /\ UNCHANGED pvars

-----------------------------------------------------------------------------
DaemonStep(d) ==
  \/ BeginSweep(d)
  \/ EndSweep(d)
  \/ DaemonAcquires(d)
  \/ PreflightBlocks(d)
  \/ TurnBegins(d)
  \/ RunnerSkipsTurn(d)
  \/ TurnReturns(d)
  \/ TurnRaises(d)
  \/ Rebind(d)
  \/ Report(d)
  \/ Restart(d)

HookStep(h) == BeginSweep(h) \/ EndSweep(h) \/ HookAcquires(h) \/ HookGivesUp(h)

TurnStep(r) == TurnReports(r) \/ TurnEnds(r)

UserStep(t) == UserCreates(t) \/ UserUpdates(t) \/ UserCancels(t) \/ UserBinds(t)

Passes == Tick /\ UNCHANGED pvars

SystemNext ==
  \/ Passes
  \/ ClientOpens
  \/ \E d \in Daemon : DaemonStep(d) \/ Crash(d)
  \/ \E h \in Hook : HookStep(h)
  \/ \E r \in Run : TurnStep(r)
  \/ \E t \in Task : UserStep(t)

SystemSpec == SystemInit /\ [][SystemNext]_vars

\* Time passes, and a daemon keeps going round its loop, where one that died
\* is started again.  Every wait of a daemon that runs codex exec has a
\* timeout.  For the other runners this assumes that the server answers: a
\* call of app-server has no timeout, and one of codex-mcp waits for a line.
Fairness == WF_vars(Passes) /\ \A d \in Daemon : WF_vars(DaemonStep(d))

FairSpec == SystemSpec /\ Fairness

-----------------------------------------------------------------------------
(* Safety *)

TurnsOf(t) == {r \in Recorded : turn[r] # "none" /\ runs[r].task = t}

(* The turns max_runs allows a task: complete_iteration compares it after    *)
(* an iteration, so --max-runs 0 allows one, as 1 does.                      *)
Allowed(args) == IF args.maxRuns = 0 THEN 1 ELSE args.maxRuns

(* max_runs bounds the Codex turns begun for a task, not only the completed  *)
(* ones: a turn that loses its lease, outlives its daemon or is expired      *)
(* never frees a place for another, and a completion that names no run takes *)
(* one.  Whenever a user makes a task active again, as loop_update may do    *)
(* with any task and a bind with a paused one, one more may begin.           *)
TurnsWithinMaxRuns ==
  \A t \in Stored :
    tasks[t].args.maxRuns # Null =>
      Cardinality(TurnsOf(t)) <= Allowed(tasks[t].args) + resumes[t]

\* The live turns of a task whose report will still count.
OpenTurnsOf(t) == {r \in TurnsOf(t) : turn[r] = "live" /\ runs[r].status = "running"}

(* A task has at most one live turn whose report will still count, however   *)
(* many daemons and hooks acquire it and however long its turns outlive      *)
(* their leases, unless loop_update took a run away or the task is past its  *)
(* expiry.  Even then there are no more than one for each time a user, or a  *)
(* completion that ends no run, made the task active again, and one.         *)
OneOpenTurn ==
  \A t \in Stored :
    /\ Cardinality(OpenTurnsOf(t)) <= 1 + resumes[t] + bare[t]
    /\ t \notin updated /\ tasks[t].expires > now => Cardinality(OpenTurnsOf(t)) <= 1

(* A task whose iterations keep failing stops: once MaxFailures of them      *)
(* failed, whether the turn, the runner or its fallback said so and whatever *)
(* succeeded in between, it is neither due nor running.  Each time a user    *)
(* makes it active again, and each completion that ends no run, allows one   *)
(* failure more.                                                             *)
RepeatedFailuresPause ==
  \A t \in Stored :
    tasks[t].status \in {"active", "running"} =>
      tasks[t].failures < MaxFailures + resumes[t] + bare[t]

\* The iterations of a task that no turn and no daemon has reported.
Unreported(t) ==
  {r \in Recorded : runs[r].task = t /\ runs[r].source \notin CompletionSource}

(* Iterations of a task follow each other: when a turn begins, however old   *)
(* the snapshot it begins from, no earlier iteration of its task is still    *)
(* to be reported, and no report has come for its own.  An iteration whose   *)
(* report never counts, since its lease ran out, its daemon crashed, its     *)
(* preflight failed or it was expired, takes the place of the next one until *)
(* a user makes the task active again; so does a completion that ends no     *)
(* run.  Turns must name their runs.                                         *)
BeginsAfterReports ==
  [][\A r \in Run, t \in Task :
       /\ turn[r] = "none" /\ turn'[r] = "live"
       /\ runs'[r].task = t
       /\ FALSE \notin NamesRun
       => /\ r \in Unreported(t)'
          /\ Cardinality(Unreported(t)') <= 1 + resumes'[t] + bare'[t]]_vars

Handled(d) == {batch[d][i].run : i \in DOMAIN batch[d]}

(* No run is in the hands of two daemons, or of a daemon and a hook's turn   *)
(* that nobody waits for: each run a daemon still has to handle was acquired *)
(* by it for the snapshot's task, and its turn begins only in that daemon.   *)
RunHasOneExecutor ==
  \A d \in Daemon :
    /\ \A e \in Daemon \ {d} : Handled(d) \cap Handled(e) = {}
    /\ \A i \in DOMAIN batch[d] :
         /\ batch[d][i].run \in Recorded
         /\ runs[batch[d][i].run].task = batch[d][i].task
         /\ (i > 1 \/ pc[d] = "task") => turn[batch[d][i].run] = "none"

(* A daemon is about to give up a snapshot of the task, which may be old.    *)
PreflightDue(t) == \E d \in Daemon : pc[d] = "task" /\ Job(d).task = t /\ Blocked(d, Job(d))

(* A task that was cancelled, finished or failed stays so, whatever reports, *)
(* retries, rebinding and daemons come late, until someone calls loop_update *)
(* or reports an iteration without naming its run: a failed preflight, which *)
(* does not look at the task's status, can at most leave it paused.  Past    *)
(* its expiry even a cancelled task may be revived: an acquire with an old   *)
(* timestamp that fell between the two statements of an expiry sweep left it *)
(* an open run.                                                              *)
RetiredForGood ==
  [][\A t \in Stored \ updated' :
       /\ tasks[t].status \in {"cancelled", "done", "failed"}
       /\ bare'[t] = 0
       /\ tasks[t].expires > now
       => \/ tasks'[t].status \in {"cancelled", tasks[t].status}
          \/ tasks'[t].status = "paused" /\ PreflightDue(t)]_vars

(* A failed preflight ends the run the daemon holds, although                *)
(* abort_current_run is given no run id and ends whichever run the task has  *)
(* by then: as long as turns name their runs, nobody else can have acquired  *)
(* the task since, unless loop_update released it, the expiry did, or a      *)
(* completion came that found no run.                                        *)
PreflightFailsOwnRun ==
  [][\A r \in OpenRuns(Stored \ updated) :
       /\ runs'[r].source = "scheduler_preflight"
       /\ FALSE \notin NamesRun
       /\ bare[runs[r].task] = 0
       /\ tasks[runs[r].task].expires > now
       => \E d \in Daemon : batch[d] # <<>> /\ batch'[d] = Tail(batch[d]) /\ Job(d).run = r]_vars

(* Every step of the composed system is a step of the store.                 *)
StoreSpec == Spec

-----------------------------------------------------------------------------
(* Liveness, while the clock has not reached its bound *)

Unretired == {t \in Stored : tasks[t].status \in Live}

Holding(r) == {t \in Stored : tasks[t].current = r}

Waiting == {t \in Stored : tasks[t].status = "active"}

(* Every task is retired for good once it is past its expiry, paused or      *)
(* running ones too, whatever crashes, loop_update calls and late reports    *)
(* come in between.                                                          *)
EveryTaskRetires ==
  \A t \in Task : (t \in Stored /\ tasks[t].expires <= MaxTime) ~> [](t \notin Unretired)

(* An iteration whose daemon crashed, or whose turn never reports, gives its *)
(* task back when the lease runs out.                                        *)
LostIterationReleased ==
  \A t \in Task, r \in Run :
    (t \in Holding(r) /\ tasks[t].lease <= MaxTime) ~> (t \notin Holding(r))

(* A due task is acquired, paused or retired, also when its daemon died in   *)
(* the middle of a round.                                                    *)
DueTaskServed ==
  \A t \in Task : (t \in Waiting /\ tasks[t].next <= now) ~> (t \notin Waiting)

-----------------------------------------------------------------------------
(* What the documentation says *)

(* "Running tasks are leased so two daemon processes do not execute the same *)
(* task concurrently."                                                       *)
SingleExecution ==
  \A d, e \in Daemon : pc[d] = "running" /\ pc[e] = "running" /\ Job(d).task = Job(e).task
                         => d = e

(* "Running task cancellation sets cancel_requested; it stops after the      *)
(* current iteration completes."                                             *)
NoIterationAfterCancel ==
  [][\A t \in Stored : tasks[t].cancel => tasks'[t].current \in {tasks[t].current, Null}]_vars

(* "model-side completion and scheduler fallback cannot double-increment     *)
(* run_count"                                                                *)
CountedOnce ==
  \A t \in Stored : tasks[t].runCount <= Cardinality({r \in Recorded : runs[r].task = t})

=============================================================================
