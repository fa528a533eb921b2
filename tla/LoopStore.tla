----------------------------- MODULE LoopStore -----------------------------
(***************************************************************************)
(* The durable store of Codex Loop (scripts/codex_loop/store.py): the      *)
(* tables loop_tasks and loop_runs, and one action per store operation.    *)
(* Every operation that opens BEGIN IMMEDIATE is one atomic step.          *)
(* expire_due_tasks runs two autocommit statements, so it is two steps of  *)
(* a process and any other operation, or a crash, may come between them.   *)
(*                                                                         *)
(* An operation reads the clock before it waits for the database lock, so  *)
(* its timestamp c may be up to LockWait older than the clock when it      *)
(* commits.                                                                *)
(***************************************************************************)
EXTENDS Integers, FiniteSets, Functions

CONSTANTS
  Task,              \* identifiers create_task may draw
  Run,               \* identifiers acquire_due_tasks may draw
  Thread,            \* concrete Codex thread ids
  Current,           \* the placeholder thread id "current"
  Proc,              \* processes that call expire_due_tasks
  Null,              \* SQL NULL, None, and the value of an absent row
  CreateArgs,        \* the columns of a task that no UPDATE writes
  CompletionSource,  \* who may report the end of an iteration
  Reports,           \* threads a completion may report, and Null for none
  Delays,            \* values of next_delay_seconds a caller may pass
  Limits,            \* batch limits a caller of acquire_due_tasks may pass
  Jitter,            \* deterministic_jitter_seconds of each task
  Lease, Expire, Cap, MaxFailures, MinDelay, DefaultDelay, MaxDelay,
  LockWait,          \* bound on the age of a timestamp at commit
  MaxTime,           \* bound: the clock stops here
  MaxBare            \* bound: completions of a task that name no run

Status    == {"active", "running", "paused", "cancelled", "failed", "done", "expired"}
Live      == {"active", "running", "paused"}
Settable  == {"active", "paused", "cancelled", "failed", "done"}
Reported  == {"continue", "pause", "done", "failed"}
RunStatus == {"running", "completed", "failed", "cancelled"}
SweepSource == {"expiry", "lease_expired", "scheduler_preflight"}

ASSUME ConstantsAssumption ==
  /\ Null \notin Task \cup Run \cup Thread \cup {Current} \cup Nat
  /\ Null \notin CompletionSource \cup SweepSource
  /\ Current \notin Thread
  /\ CompletionSource \cap SweepSource = {}
  /\ Reports \subseteq Thread \cup {Current, Null}
  /\ Delays \subseteq Nat \cup {Null}
  /\ Limits \subseteq Nat \ {0}
  /\ Jitter \in [Task -> Nat]
  /\ {Lease, Expire, Cap, MaxFailures, MinDelay} \subseteq Nat \ {0}
  /\ {DefaultDelay, MaxDelay, LockWait, MaxTime, MaxBare} \subseteq Nat
  /\ MinDelay <= DefaultDelay /\ DefaultDelay <= MaxDelay

ArgsType == [schedule   : {"fixed", "dynamic"},
             interval   : Nat,
             maxRuns    : Nat \cup {Null},
             visibility : {"visible_only", "thread_only", "background_ok"},
             runner     : {"app-server", "codex-mcp", "exec", "dry-run"}]

ASSUME ArgsAssumption == CreateArgs \subseteq ArgsType

VARIABLES
  tasks,     \* loop_tasks: a row, or Null before create_task inserts it
  runs,      \* loop_runs: a row, or Null before the run is acquired
  now,       \* the clock every process reads
  sweep,     \* per process: timestamp of an expire_due_tasks whose second
             \* statement is still to come, or Null
  bare,      \* history: completions of a task that ended no run
  detached   \* history: runs that update_status, or the completion of
             \* another run, took away from their running task

svars == <<tasks, runs, now, sweep, bare, detached>>

TaskRow == [status   : Status,
            thread   : Thread \cup {Current},
            bound    : BOOLEAN,
            current  : Run \cup {Null},
            lease    : Nat \cup {Null},
            next     : Nat,
            expires  : Nat,
            runCount : Nat,
            failures : Nat,
            cancel   : BOOLEAN,
            args     : CreateArgs]

RunRow == [task   : Task,
           status : RunStatus,
           source : CompletionSource \cup SweepSource \cup {Null}]

ASSUME NullAssumption == Null \notin TaskRow /\ Null \notin RunRow

TypeOK ==
  /\ tasks \in [Task -> TaskRow \cup {Null}]
  /\ runs \in [Run -> RunRow \cup {Null}]
  /\ now \in Nat
  /\ sweep \in [Proc -> Nat \cup {Null}]
  /\ bare \in [Task -> Nat]
  /\ detached \subseteq Run

Stored   == {t \in Task : tasks[t] # Null}
Recorded == {r \in Run : runs[r] # Null}
\* Mutant: run ids are not unique.
FreshRunReused == Run

FreshRun == Run \ Recorded

\* The timestamps an operation that commits now may carry.
Stamp == {c \in 0..now : c + LockWait >= now}

\* Mutant: AND status = 'running' is forgotten.
OpenRunsEnded(ts) == {r \in Recorded : runs[r].task \in ts}

\* The runs of the tasks in ts that are still marked running.
OpenRuns(ts) == {r \in Recorded : runs[r].task \in ts /\ runs[r].status = "running"}

Ended(run, st, src) == [run EXCEPT !.status = st, !.source = src]

\* UPDATE loop_runs SET ... WHERE status = 'running' AND task_id IN ts
FailRunsOf(ts, src) ==
  runs' = [r \in Run |-> IF r \in OpenRuns(ts) THEN Ended(runs[r], "failed", src)
                                               ELSE runs[r]]

Release(row, st) == [row EXCEPT !.status = st, !.lease = Null, !.current = Null]

Init ==
  /\ tasks = [t \in Task |-> Null]
  /\ runs = [r \in Run |-> Null]
  /\ now = 0
  /\ sweep = [p \in Proc |-> Null]
  /\ bare = [t \in Task |-> 0]
  /\ detached = {}

Tick ==
  /\ now < MaxTime
  /\ now' = now + 1
  /\ UNCHANGED <<tasks, runs, sweep, bare, detached>>

-----------------------------------------------------------------------------
(* Creating and editing tasks *)

BaseDelay(args) == IF args.schedule = "fixed" /\ args.interval # 0
                   THEN args.interval ELSE MinDelay

NewTask(args, th, c) ==
  [status |-> "active", thread |-> th, bound |-> th # Current,
   current |-> Null, lease |-> Null,
   next |-> c + BaseDelay(args), expires |-> c + Expire,
   runCount |-> 0, failures |-> 0, cancel |-> FALSE, args |-> args]

LiveOn(th) == {t \in Stored : tasks[t].thread = th /\ tasks[t].status \in Live}

\* A thread already at its cap makes create_task raise, which changes nothing.
CreateTask(t, args, th, c) ==
  /\ t \notin Stored
  /\ Cardinality(LiveOn(th)) < Cap
  /\ tasks' = [tasks EXCEPT ![t] = NewTask(args, th, c)]
  /\ UNCHANGED <<runs, now, sweep, bare, detached>>

\* Mutant: the update leaves the lease and the current run in place.
UpdatedKeepingRun(row, st) == [row EXCEPT !.status = st]

\* No test of the previous status, none of loop_runs.
Updated(row, st) == Release(row, st)

UpdateStatus(t, st) ==
  /\ t \in Stored
  /\ tasks' = [tasks EXCEPT ![t] = Updated(tasks[t], st)]
  /\ detached' = detached \cup ({tasks[t].current} \ {Null})
  /\ UNCHANGED <<runs, now, sweep, bare>>

RequestCancel(t) ==
  /\ t \in Stored
  /\ tasks' = [tasks EXCEPT ![t] =
                 IF tasks[t].status = "running" THEN [tasks[t] EXCEPT !.cancel = TRUE]
                 ELSE [Release(tasks[t], "cancelled") EXCEPT !.cancel = FALSE]]
  /\ UNCHANGED <<runs, now, sweep, bare, detached>>

\* Mutant: resume activates the task whatever its status.
BindReviving(t, th, resume) ==
  /\ t \in Stored
  /\ th \in Thread
  /\ tasks' = [tasks EXCEPT ![t] =
                 [Release(tasks[t], "active") EXCEPT !.thread = th, !.bound = TRUE]]
  /\ UNCHANGED <<runs, now, sweep, bare, detached>>

BindTaskThread(t, th, resume) ==
  /\ t \in Stored
  /\ th \in Thread
  /\ tasks' = [tasks EXCEPT ![t] =
                 [tasks[t] EXCEPT !.thread = th, !.bound = TRUE,
                    !.status = IF resume /\ tasks[t].status = "paused" THEN "active"
                               ELSE tasks[t].status]]
  /\ UNCHANGED <<runs, now, sweep, bare, detached>>

ReplaceTaskThread(t, th) ==
  /\ t \in Stored
  /\ tasks' = [tasks EXCEPT ![t] = [tasks[t] EXCEPT !.thread = th, !.bound = TRUE]]
  /\ UNCHANGED <<runs, now, sweep, bare, detached>>

\* Mutant: the migration binds every pending task.
OpenStoreAll ==
  /\ tasks' = [t \in Task |-> IF t \in Stored THEN [tasks[t] EXCEPT !.bound = TRUE]
                             ELSE tasks[t]]
  /\ UNCHANGED <<runs, now, sweep, bare, detached>>

\* LoopStore() migrates the table each time a process opens the database.
OpenStore ==
  /\ tasks' = [t \in Task |->
                 IF t \in Stored /\ tasks[t].thread # Current
                 THEN [tasks[t] EXCEPT !.bound = TRUE] ELSE tasks[t]]
  /\ UNCHANGED <<runs, now, sweep, bare, detached>>

-----------------------------------------------------------------------------
(* Expiry: two statements that share one timestamp *)

\* Mutant: paused tasks do not expire.
PastExpiryUnpaused(c) ==
  {t \in Stored : tasks[t].status \in Live \ {"paused"} /\ tasks[t].expires <= c}

PastExpiry(c) == {t \in Stored : tasks[t].status \in Live /\ tasks[t].expires <= c}

\* Mutant: the first statement lacks its subquery.
ExpireEveryRun(p, c) ==
  /\ sweep[p] = Null
  /\ FailRunsOf(Stored, "expiry")
  /\ sweep' = [sweep EXCEPT ![p] = c]
  /\ UNCHANGED <<tasks, now, bare, detached>>

ExpireRuns(p, c) ==
  /\ sweep[p] = Null
  /\ FailRunsOf(PastExpiry(c), "expiry")
  /\ sweep' = [sweep EXCEPT ![p] = c]
  /\ UNCHANGED <<tasks, now, bare, detached>>

ExpireTasks(p) ==
  /\ sweep[p] # Null
  /\ tasks' = [t \in Task |-> IF t \in PastExpiry(sweep[p])
                              THEN Release(tasks[t], "expired") ELSE tasks[t]]
  /\ sweep' = [sweep EXCEPT ![p] = Null]
  /\ UNCHANGED <<runs, now, bare, detached>>

\* The process dies, or the second statement finds the database locked.
AbandonSweep(p) ==
  /\ sweep[p] # Null
  /\ sweep' = [sweep EXCEPT ![p] = Null]
  /\ UNCHANGED <<tasks, runs, now, bare, detached>>

-----------------------------------------------------------------------------
(* Acquiring due tasks *)

\* Mutant: lost leases are not swept.
LeaseNeverRunsOut(c) == {}

LeaseRanOut(c) == {t \in Stored : /\ tasks[t].status = "running"
                                  /\ tasks[t].lease # Null
                                  /\ tasks[t].lease <= c}

\* Mutant: the due test forgets AND status = 'active'.
DueAnyStatus(c, th) ==
  {t \in Stored : /\ tasks[t].status \in Live
                  /\ tasks[t].next <= c
                  /\ tasks[t].expires > c
                  /\ th \in {Null, tasks[t].thread}}

\* Mutant: the thread clause is applied when no thread is given.
DueFiltered(c, th) == {t \in Stored : /\ tasks[t].status = "active"
                                      /\ tasks[t].next <= c
                                      /\ tasks[t].expires > c
                                      /\ th = tasks[t].thread}

Due(c, th) == {t \in Stored : /\ tasks[t].status = "active"
                              /\ tasks[t].next <= c
                              /\ tasks[t].expires > c
                              /\ th \in {Null, tasks[t].thread}}

\* ORDER BY next_run_at ASC LIMIT limit
Batches(due, limit) ==
  {S \in SUBSET due :
     /\ Cardinality(S) = IF Cardinality(due) < limit THEN Cardinality(due) ELSE limit
     /\ \A s \in S, u \in due \ S : tasks[s].next <= tasks[u].next}

Claimed(row, r, c) == [row EXCEPT !.status = "running", !.lease = c + Lease, !.current = r]

\* Mutant: the run is inserted with the status of a task.
NewRunActive(t) == [task |-> t, status |-> "active", source |-> Null]

NewRun(t) == [task |-> t, status |-> "running", source |-> Null]

\* claim maps the acquired tasks, one to one, to the new run ids.
AcquireDueTasks(claim, c, limit, th) ==
  /\ DOMAIN claim \in Batches(Due(c, th), limit)
  /\ claim \in Injection(DOMAIN claim, FreshRun)
  /\ tasks' = [t \in Task |->
                 IF t \in DOMAIN claim THEN Claimed(tasks[t], claim[t], c)
                 ELSE IF t \in LeaseRanOut(c) THEN Release(tasks[t], "failed")
                 ELSE tasks[t]]
  /\ runs' = [r \in Run |->
                IF \E t \in DOMAIN claim : claim[t] = r
                THEN NewRun(CHOOSE t \in DOMAIN claim : claim[t] = r)
                ELSE IF r \in OpenRuns(LeaseRanOut(c))
                THEN Ended(runs[r], "failed", "lease_expired")
                ELSE runs[r]]
  /\ UNCHANGED <<now, sweep, bare, detached>>

-----------------------------------------------------------------------------
(* Ending an iteration *)

\* Mutant: the failure at hand is not counted.
AskedLate(row, st) ==
  IF row.cancel THEN "cancelled"
  ELSE IF st = "pause" THEN "paused"
  ELSE IF st = "done" THEN "done"
  ELSE IF st = "failed" /\ row.failures >= MaxFailures THEN "paused"
  ELSE "active"

Asked(row, st) ==
  IF row.cancel THEN "cancelled"
  ELSE IF st = "pause" THEN "paused"
  ELSE IF st = "done" THEN "done"
  ELSE IF st = "failed" /\ row.failures + 1 >= MaxFailures THEN "paused"
  ELSE "active"

\* Mutant: max_runs is compared with the count before this iteration.
FinalStatusLate(row, st) ==
  IF Asked(row, st) = "active" /\ row.args.maxRuns # Null
       /\ row.runCount >= row.args.maxRuns
  THEN "done" ELSE Asked(row, st)

FinalStatus(row, st) ==
  IF Asked(row, st) = "active" /\ row.args.maxRuns # Null
       /\ row.runCount + 1 >= row.args.maxRuns
  THEN "done" ELSE Asked(row, st)

RunOutcome(row, st) == IF row.cancel THEN "cancelled"
                       ELSE IF st = "failed" THEN "failed" ELSE "completed"

\* A dynamic delay of None or 0 is the default; any other is clamped.
DynamicDelay(d) ==
  LET asked == IF d \in {Null, 0} THEN DefaultDelay ELSE d
  IN  IF asked < MinDelay THEN MinDelay
      ELSE IF asked > MaxDelay THEN MaxDelay ELSE asked

DelayOf(t, d) == IF tasks[t].args.schedule = "fixed"
                 THEN BaseDelay(tasks[t].args) + Jitter[t] ELSE DynamicDelay(d)

CompletedRow(t, st, d, th, c) ==
  LET row == tasks[t]
  IN  [Release(row, FinalStatus(row, st)) EXCEPT
         !.thread   = IF th = Null THEN row.thread ELSE th,
         !.next     = IF FinalStatus(row, st) = "active" THEN c + DelayOf(t, d) ELSE row.next,
         !.runCount = row.runCount + 1,
         !.failures = IF st = "failed" /\ ~row.cancel THEN row.failures + 1 ELSE row.failures,
         !.cancel   = FALSE]

\* run_id when the caller gives one, else the task's current run, else NULL.
EffectiveRun(t, rid) == IF rid # Null THEN rid ELSE tasks[t].current

\* The run already ended: COMMIT without a change.
CompleteAgain(t, rid) ==
  /\ t \in Stored
  /\ EffectiveRun(t, rid) \in Recorded
  /\ runs[EffectiveRun(t, rid)].task = t
  /\ runs[EffectiveRun(t, rid)].status # "running"
  /\ UNCHANGED svars

CompleteRun(t, rid, st, d, th, src, c) ==
  LET r == EffectiveRun(t, rid)
  IN  /\ t \in Stored
      /\ r \in OpenRuns({t})
      /\ tasks' = [tasks EXCEPT ![t] = CompletedRow(t, st, d, th, c)]
      /\ runs' = [runs EXCEPT ![r] = Ended(runs[r], RunOutcome(tasks[t], st), src)]
      /\ detached' = detached \cup ({tasks[t].current} \ {Null, r})
      /\ UNCHANGED <<now, sweep, bare>>

\* Neither the caller nor the task knows a run: only the task row changes.
CompleteBare(t, st, d, th, c) ==
  /\ t \in Stored
  /\ tasks[t].current = Null
  /\ bare[t] < MaxBare
  /\ tasks' = [tasks EXCEPT ![t] = CompletedRow(t, st, d, th, c)]
  /\ bare' = [bare EXCEPT ![t] = @ + 1]
  /\ UNCHANGED <<runs, now, sweep, detached>>

CompleteIteration(t, rid, st, d, th, src, c) ==
  \/ CompleteAgain(t, rid)
  \/ CompleteRun(t, rid, st, d, th, src, c)
  \/ rid = Null /\ CompleteBare(t, st, d, th, c)

\* Mutant: the task is paused but its run is left running.
AbortTaskOnly(t, st) ==
  /\ t \in Stored
  /\ tasks' = [tasks EXCEPT ![t] = Release(tasks[t], st)]
  /\ UNCHANGED <<runs, now, sweep, bare, detached>>

\* Fails the run the task has now, which need not be the caller's.
AbortCurrentRun(t, st) ==
  /\ t \in Stored
  /\ runs' = [r \in Run |->
                IF r = tasks[t].current /\ r \in Recorded /\ runs[r].status = "running"
                THEN Ended(runs[r], "failed", "scheduler_preflight") ELSE runs[r]]
  /\ tasks' = [tasks EXCEPT ![t] = Release(tasks[t], st)]
  /\ UNCHANGED <<now, sweep, bare, detached>>

-----------------------------------------------------------------------------
(* Any caller may make any call *)

Edit(t) ==
  \/ \E args \in CreateArgs, th \in Thread \cup {Current}, c \in Stamp :
       CreateTask(t, args, th, c)
  \/ \E st \in Settable : UpdateStatus(t, st)
  \/ RequestCancel(t)
  \/ \E th \in Thread, resume \in BOOLEAN : BindTaskThread(t, th, resume)
  \/ \E th \in Thread : ReplaceTaskThread(t, th)

Sweeps(p) ==
  \/ \E c \in Stamp : ExpireRuns(p, c)
  \/ ExpireTasks(p)
  \/ AbandonSweep(p)

Acquire ==
  \E c \in Stamp, limit \in Limits, th \in Thread \cup {Null} :
    \E S \in SUBSET Due(c, th) : \E claim \in Injection(S, FreshRun) :
      AcquireDueTasks(claim, c, limit, th)

End(t) ==
  \/ \E rid \in Run \cup {Null}, st \in Reported, d \in Delays,
        th \in Reports, src \in CompletionSource, c \in Stamp :
       CompleteIteration(t, rid, st, d, th, src, c)
  \/ AbortCurrentRun(t, "paused")

Next ==
  \/ Tick
  \/ OpenStore
  \/ \E t \in Task : Edit(t)
  \/ \E p \in Proc : Sweeps(p)
  \/ Acquire
  \/ \E t \in Task : End(t)

Spec == Init /\ [][Next]_svars

-----------------------------------------------------------------------------
(* Invariants *)

(* A row is coherent after every store operation: it is running exactly     *)
(* when it carries a run id and a lease.  Seven UPDATE statements write     *)
(* these three columns, and acquire_due_tasks and the prompt rely on them.  *)
LeaseConsistent ==
  \A t \in Stored : /\ tasks[t].status = "running" <=> tasks[t].current # Null
                    /\ tasks[t].status = "running" <=> tasks[t].lease # Null

(* A running task's run is a run of that task, and still open unless the    *)
(* first statement of an expiry sweep has closed it before the second one   *)
(* could retire the task.                                                   *)
CurrentRunOwned ==
  \A t \in Stored : tasks[t].current # Null =>
    /\ tasks[t].current \in Recorded
    /\ runs[tasks[t].current].task = t
    /\ \/ runs[tasks[t].current].status = "running"
       \/ tasks[t].expires <= now

(* No run is left open behind the scheduler's back: an open run belongs to  *)
(* a stored task, and if it is not that task's current run then it was      *)
(* taken away by update_status or by the completion of another run, or the  *)
(* task is past its expiry (an acquire with an old timestamp may fall       *)
(* between the two statements of a sweep).                                  *)
OrphansExplained ==
  \A r \in OpenRuns(Task) :
    /\ runs[r].task \in Stored
    /\ \/ tasks[runs[r].task].current = r
       \/ r \in detached
       \/ tasks[runs[r].task].expires <= now

(* run_count counts every completed iteration once: the runs that a caller  *)
(* completed, plus the completions that named no run and found none.        *)
RunCountExact ==
  \A t \in Stored :
    tasks[t].runCount =
      bare[t] + Cardinality({r \in Recorded :
                               runs[r].task = t /\ runs[r].source \in CompletionSource})

(* binding_status is never 'bound' on a task whose thread is still the      *)
(* placeholder, whichever of the five writers of thread_id came last, as    *)
(* long as no caller reports the placeholder as the thread of an iteration: *)
(* complete_iteration, unlike bind_task_thread, does not test for that.     *)
BoundIsConcrete ==
  Current \notin Reports => \A t \in Stored : tasks[t].bound => tasks[t].thread # Current

-----------------------------------------------------------------------------
(* Action properties *)

(* A run row is never rewritten once the run has ended, and never changes   *)
(* task: of the five writers (two completions, expiry, lost lease, failed   *)
(* preflight) racing for one run, the first decides.                        *)
RunsMonotone ==
  \A r \in Recorded :
    /\ runs'[r] # Null
    /\ runs'[r].task = runs[r].task
    /\ runs[r].status # "running" => runs'[r] = runs[r]

RunEndsOnce == [][RunsMonotone]_svars

(* A task that was cancelled, done, failed or expired becomes due again     *)
(* only when someone sets its status, or a completion arrives for it: of a  *)
(* run still open, or of no run.  Binding, expiry sweeps, acquisition and   *)
(* migration never revive it.                                               *)
ReviveOnlyByResumeOrCompletion ==
  [][\A t \in Stored :
       tasks[t].status \notin Live /\ tasks'[t].status \in {"active", "running"} =>
         \/ UpdateStatus(t, "active")
         \/ bare'[t] > bare[t]
         \/ \E r \in OpenRuns({t}) : runs'[r].source \in CompletionSource]_svars

(* The tables implement the run ledger.                                     *)
Ledger == INSTANCE RunLedger WITH
  open  <- {<<runs[r].task, r>> : r \in OpenRuns(Task)},
  used  <- Recorded,
  count <- [t \in Task |-> IF t \in Stored THEN tasks[t].runCount ELSE 0]

LedgerSpec == Ledger!LedgerSpec

(* "Per-thread cap: 50 active/running/paused tasks" (loop-semantics.md).    *)
CapPerThread == \A th \in Thread \cup {Current} : Cardinality(LiveOn(th)) <= Cap

=============================================================================
