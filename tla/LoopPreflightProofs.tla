------------------------- MODULE LoopPreflightProofs -------------------------
(* Proofs about the snapshots a daemon holds: while one waits for its turn   *)
(* nobody else can report or replace its run.  So a failed preflight ends    *)
(* the run its daemon holds, although abort_current_run is given no run id,  *)
(* and a turn begins only when the earlier ones of its task are reported.    *)
EXTENDS LoopTurnsProofs

-----------------------------------------------------------------------------
(* The runs that a daemon holds and has not begun *)

Unbegun(r) ==
  \E d \in Daemon : \E i \in DOMAIN batch[d] :
    batch[d][i].run = r /\ (i > 1 \/ pc[d] = "task")

(* Such a run has no turn and is held once.                                 *)
LEMMA UnbegunHeld ==
  ASSUME Work, Hands, NEW r, Unbegun(r)
  PROVE  r \in Recorded /\ turn[r] = "none"
BY DEF Unbegun, Hands, RunHasOneExecutor

(* The first run of a daemon that is about to run or to abort it is unbegun. *)
LEMMA JobUnbegun ==
  ASSUME Work, Hands, NEW d \in Daemon, pc[d] = "task"
  PROVE  Unbegun(Job(d).run) /\ runs[Job(d).run].task = Job(d).task
<1>1. 1 \in DOMAIN batch[d] /\ Job(d) = batch[d][1]
  BY JobFacts DEF Busy
<1> QED
  BY <1>1 DEF Unbegun, Hands, RunHasOneExecutor

(* The run that a daemon is done with is nobody's any more.                 *)
LEMMA JobDone ==
  ASSUME Work, Hands, NEW d \in Daemon, pc[d] \in Busy, NextJob(d),
         NEW r \in Run, r = Job(d).run
  PROVE  ~Unbegun(r)'
<1> SUFFICES ASSUME NEW e \in Daemon, NEW i \in DOMAIN batch'[e], batch'[e][i].run = r
             PROVE  FALSE
  BY DEF Unbegun
<1>1. 1 \in DOMAIN batch[d] /\ r = batch[d][1].run
  BY JobFacts
<1>2. batch'[d] = Tail(batch[d]) /\ \A f \in Daemon \ {d} : batch'[f] = batch[f]
  BY DEF NextJob, Work
<1>3. CASE e = d
  <2>1. i + 1 \in DOMAIN batch[d] /\ i + 1 > 1 /\ batch[d][i + 1].run = r
    BY <1>2, <1>3, TailFacts
  <2>2. i + 1 = 1
    BY <1>1, <2>1 DEF Hands
  <2> QED
    BY <2>1, <2>2
<1>4. CASE e # d
  <2>1. r \in Handled(d) /\ r \in Handled(e)
    BY <1>1, <1>2, <1>4 DEF Handled
  <2> QED
    BY <1>4, <2>1 DEF Hands, RunHasOneExecutor
<1> QED
  BY <1>3, <1>4

(* The run that a daemon reports is begun.                                  *)
LEMMA ReportBegun ==
  ASSUME Work, Hands, NEW d \in Daemon, pc[d] \in Busy, pc[d] # "task"
  PROVE  ~Unbegun(Job(d).run)
<1> DEFINE r == Job(d).run
<1> SUFFICES ASSUME NEW e \in Daemon, NEW i \in DOMAIN batch[e], batch[e][i].run = r,
                    i > 1 \/ pc[e] = "task"
             PROVE  FALSE
  BY DEF Unbegun
<1>1. 1 \in DOMAIN batch[d] /\ r = batch[d][1].run
  BY JobFacts
<1>2. e = d
  <2>1. r \in Handled(d) /\ r \in Handled(e)
    BY <1>1 DEF Handled
  <2> QED
    BY <2>1 DEF Hands, RunHasOneExecutor
<1>3. i = 1
  BY <1>1, <1>2 DEF Hands
<1> QED
  BY <1>2, <1>3

(* Unless a daemon acquires, an unbegun run was unbegun before.             *)
LEMMA UnbegunKept ==
  ASSUME Work, NEW r,
         \A e \in Daemon : \/ batch'[e] = batch[e] /\ (pc'[e] = "task" => pc[e] = "task")
                           \/ batch'[e] = <<>>
                           \/ batch'[e] = Tail(batch[e]) /\ pc[e] \in Busy,
         Unbegun(r)'
  PROVE  Unbegun(r)
<1>0. PICK e \in Daemon : \E i \in DOMAIN batch'[e] :
        batch'[e][i].run = r /\ (i > 1 \/ pc'[e] = "task")
  BY DEF Unbegun
<1>1. PICK i \in DOMAIN batch'[e] : batch'[e][i].run = r /\ (i > 1 \/ pc'[e] = "task")
  BY <1>0
<1>2. CASE batch'[e] = batch[e] /\ (pc'[e] = "task" => pc[e] = "task")
  BY <1>1, <1>2 DEF Unbegun
<1>3. batch'[e] # <<>>
  <2>1. DOMAIN <<>> = {}
    OBVIOUS
  <2> QED
    BY <1>1, <2>1
<1>4. CASE batch'[e] = Tail(batch[e]) /\ pc[e] \in Busy
  BY <1>1, <1>4, TailFacts DEF Unbegun
<1> QED
  BY <1>2, <1>3, <1>4

(* A run becomes unbegun only when it is recorded.                          *)
LEMMA UnbegunStep ==
  ASSUME TypeOK, Work, [SystemNext]_vars, NEW r, Unbegun(r)'
  PROVE  Unbegun(r) \/ r \in FreshRun
<1> USE SystemAssumption
<1>1. CASE UNCHANGED <<pc, batch>>
  BY <1>1, UnbegunKept
<1>2. ASSUME NEW p \in Proc, NEW label, label # "task", Goto(p, label), batch' = batch
      PROVE  Unbegun(r)
  <2>1. \A e \in Daemon : pc'[e] = "task" => pc[e] = "task"
    BY <1>2 DEF Goto, Work
  <2> QED
    BY <1>2, <2>1, UnbegunKept
<1>3. ASSUME NEW d \in Daemon, pc[d] \in Busy, NextJob(d)
      PROVE  Unbegun(r)
  <2>1. \A e \in Daemon \ {d} : batch'[e] = batch[e] /\ pc'[e] = pc[e]
    BY <1>3 DEF NextJob, Goto, Work
  <2>2. batch'[d] = Tail(batch[d])
    BY <1>3 DEF NextJob, Work
  <2> QED
    BY <1>3, <2>1, <2>2, UnbegunKept
<1>4. ASSUME NEW d \in Daemon, DaemonAcquires(d)
      PROVE  Unbegun(r) \/ r \in FreshRun
  <2>1. PICK c \in Stamp : \E S \in Batches(Due(c, Null), Limit) :
          \E claim \in Injection(S, FreshRun), order \in Orders(S) :
            /\ Acquires(claim, order, c, Limit, Null)
            /\ batch' = [batch EXCEPT ![d] = Snapshots(claim, order)]
            /\ Goto(d, IF S = {} THEN "idle" ELSE "task")
    BY <1>4 DEF DaemonAcquires
  <2>2. PICK S \in Batches(Due(c, Null), Limit) :
          \E claim \in Injection(S, FreshRun), order \in Orders(S) :
            /\ Acquires(claim, order, c, Limit, Null)
            /\ batch' = [batch EXCEPT ![d] = Snapshots(claim, order)]
            /\ Goto(d, IF S = {} THEN "idle" ELSE "task")
    BY <2>1
  <2>3. PICK claim \in Injection(S, FreshRun), order \in Orders(S) :
            /\ Acquires(claim, order, c, Limit, Null)
            /\ batch' = [batch EXCEPT ![d] = Snapshots(claim, order)]
            /\ Goto(d, IF S = {} THEN "idle" ELSE "task")
    BY <2>2
  <2>4. order \in [1..Cardinality(S) -> S] /\ claim \in [S -> FreshRun]
    BY <2>3, AcquiresFacts
  <2>5. batch'[d] = Snapshots(claim, order)
        /\ \A e \in Daemon \ {d} : batch'[e] = batch[e] /\ pc'[e] = pc[e]
    BY <2>3 DEF Goto, Work
  <2>6. \A i \in DOMAIN batch'[d] : batch'[d][i].run \in FreshRun
    BY <2>4, <2>5 DEF Snapshots
  <2>7. PICK e \in Daemon : \E i \in DOMAIN batch'[e] :
          batch'[e][i].run = r /\ (i > 1 \/ pc'[e] = "task")
    BY DEF Unbegun
  <2>8. CASE e = d
    BY <2>6, <2>7, <2>8
  <2>9. CASE e # d
    BY <2>5, <2>7, <2>9 DEF Unbegun
  <2> QED
    BY <2>8, <2>9
<1>5. ASSUME NEW d \in Daemon, Crash(d)
      PROVE  Unbegun(r)
  <2>1. batch'[d] = <<>> /\ \A e \in Daemon \ {d} : batch'[e] = batch[e] /\ pc'[e] = pc[e]
    BY <1>5 DEF Crash, Goto, Work
  <2> QED
    BY <2>1, UnbegunKept
<1>6. ASSUME NEW d \in Daemon, DaemonStep(d)
      PROVE  Unbegun(r) \/ r \in FreshRun
  <2>1. CASE PreflightBlocks(d) \/ Report(d)
    BY <1>3, <2>1 DEF PreflightBlocks, Report, Busy
  <2>2. CASE BeginSweep(d) \/ EndSweep(d) \/ TurnBegins(d) \/ Rebind(d) \/ Restart(d)
    BY <1>2, <2>2 DEF BeginSweep, EndSweep, TurnBegins, Rebind, Restart
  <2>3. CASE RunnerSkipsTurn(d) \/ TurnReturns(d) \/ TurnRaises(d)
    <3>1. PICK label \in {"rebind", "report"} : Goto(d, label)
      BY <2>3 DEF RunnerSkipsTurn, TurnReturns, TurnRaises, Returns
    <3>2. batch' = batch
      BY <2>3 DEF RunnerSkipsTurn, TurnReturns, TurnRaises, Returns
    <3> QED
      BY <1>2, <3>1, <3>2
  <2> QED
    BY <1>4, <1>6, <2>1, <2>2, <2>3 DEF DaemonStep
<1>7. ASSUME NEW h \in Hook, HookStep(h)
      PROVE  Unbegun(r)
  BY <1>2, <1>7 DEF HookStep, BeginSweep, EndSweep, HookAcquires, HookGivesUp
<1>8. CASE \E q \in Run : TurnStep(q)
  BY <1>1, <1>8 DEF TurnStep, TurnReports, TurnEnds, pvars
<1>9. CASE \E t \in Task : UserStep(t)
  BY <1>1, <1>9 DEF UserStep, UserCreates, UserUpdates, UserCancels, UserBinds, pvars
<1>10. CASE Passes \/ ClientOpens \/ UNCHANGED vars
  BY <1>1, <1>10 DEF Passes, ClientOpens, vars, pvars
<1> QED
  BY <1>5, <1>6, <1>7, <1>8, <1>9, <1>10 DEF SystemNext

-----------------------------------------------------------------------------
(* Who ends a run *)

(* When turns name their runs, a run is completed by its own turn or by the *)
(* daemon that holds it.                                                    *)
LEMMA SignedBy ==
  ASSUME TypeOK, Work, SweepsPast, FALSE \notin NamesRun, [SystemNext]_vars,
         NEW t \in Task, NEW r \in Run, NEW st \in Reported, Completes(t, r, st)
  PROVE  turn[r] = "live" \/ \E d \in Daemon : Report(d) /\ Job(d).run = r
<1> USE SystemAssumption
<1>1. r \in OpenRuns(Task) /\ runs'[r].source \in CompletionSource /\ runs'[r] # runs[r]
  BY DEF Completes, OpenRuns
<1>2. ~[Quiet]_svars
  BY <1>1, QuietStep, ConstantsAssumption DEF Plain, RunsTurnOver, Opens, Swept, Completes
<1>3. ASSUME NEW d \in Daemon, PreflightBlocks(d) PROVE FALSE
  BY <1>1, <1>3, PreflightIsStore, AbortStep, ConstantsAssumption DEF Swept
<1>4. ASSUME NEW d \in Daemon, Report(d) PROVE Job(d).run = r
  BY <1>1, <1>4, ReportIsStore, NamedCompletion
<1>5. ASSUME NEW q \in Run, TurnStep(q) PROVE turn[r] = "live"
  <2>1. CASE TurnReports(q)
    <3>1. PICK named \in NamesRun, s \in TurnStatus, dl \in Delays, th \in Reports, c \in Stamp :
            CompleteIteration(runs[q].task, IF named THEN q ELSE Null, s, dl, th,
                              "mcp_tool", c)
      BY <2>1 DEF TurnReports
    <3>2. named = TRUE
      OBVIOUS
    <3>3. q = r
      BY <1>1, <3>1, <3>2, NamedCompletion
    <3> QED
      BY <2>1, <3>3 DEF TurnReports
  <2>2. CASE TurnEnds(q)
    BY <1>1, <2>2 DEF TurnEnds, svars
  <2> QED
    BY <1>5, <2>1, <2>2 DEF TurnStep
<1>6. ASSUME NEW u \in Task, UserStep(u) PROVE FALSE
  <2>1. runs' = runs
    BY <1>6 DEF UserStep, UserCreates, UserUpdates, UserCancels, UserBinds, CreateTask,
                UpdateStatus, RequestCancel, BindTaskThread
  <2> QED
    BY <1>1, <2>1
<1>7. CASE Passes \/ ClientOpens \/ UNCHANGED vars
  BY <1>2, <1>7 DEF Passes, ClientOpens, Quiet, vars
<1> QED
  BY <1>2, <1>3, <1>4, <1>5, <1>6, <1>7, DaemonIsStore, HookIsStore DEF SystemNext

(* Only a failed preflight writes a run off to one.                         *)
LEMMA OnlyPreflight ==
  ASSUME TypeOK, Work, SweepsPast, [SystemNext]_vars, NEW r \in OpenRuns(Task),
         runs[r].source # "scheduler_preflight", runs'[r].source = "scheduler_preflight"
  PROVE  \E d \in Daemon : PreflightBlocks(d)
<1>1. r \in Run
  BY DEF OpenRuns, Recorded
<1>2. CASE [Served]_svars
  <2>1. ~[Quiet]_svars
    BY QuietSource
  <2>2. PICK t \in Task, rid \in Run \cup {Null}, st \in Reported, d \in Delays,
             th \in Reports, src \in CompletionSource, c \in Stamp :
          CompleteIteration(t, rid, st, d, th, src, c)
    BY <1>2, <2>1 DEF Served
  <2>3. \/ UNCHANGED svars
        \/ Completes(t, EffectiveRun(t, rid), st)
        \/ CompletesBare(t, st)
    BY <2>2, CompleteStep
  <2>4. "scheduler_preflight" \notin CompletionSource
    BY ConstantsAssumption DEF SweepSource
  <2> QED
    BY <1>1, <2>3, <2>4 DEF Completes, CompletesBare, svars
<1>3. CASE \E t \in Task : UserStep(t)
  BY <1>3 DEF UserStep, UserCreates, UserUpdates, UserCancels, UserBinds, CreateTask,
              UpdateStatus, RequestCancel, BindTaskThread
<1> QED
  BY <1>2, <1>3, SystemStep

-----------------------------------------------------------------------------
(* Every unbegun run still has its task *)

Watched(t) == t \notin updated /\ bare[t] = 0 /\ tasks[t].expires > now

(* A run that waits for its turn is the task's current run, unless the task  *)
(* lost its lease and failed, or was cancelled after that; and no other run  *)
(* of the task waits anywhere.                                               *)
KeepsTask(r) ==
  /\ \/ tasks[runs[r].task].current = r
     \/ tasks[runs[r].task].status \in {"failed", "cancelled"}
  /\ \A s \in Run : Unbegun(s) /\ runs[s].task = runs[r].task => s = r

Preflights ==
  FALSE \notin NamesRun =>
    \A r \in Run : Unbegun(r) /\ Watched(runs[r].task) => KeepsTask(r)

(* A task that is watched after a step was watched before it.                *)
LEMMA WatchedBefore ==
  ASSUME TypeOK, TypeOK', Work, SweepsPast, Places, [SystemNext]_vars,
         NEW t \in Stored, Watched(t)'
  PROVE  /\ Watched(t)
         /\ ~Expires(t)
         /\ \A st \in Reported : ~CompletesBare(t, st)
<1>1. t \in Task /\ tasks[t] \in TaskRow /\ tasks[t].expires \in Nat /\ now \in Nat
      /\ now' \in Nat
  BY StoredRow DEF TypeOK, TaskRow, Stored
<1>2. now <= now' /\ updated \subseteq updated' /\ bare[t] <= bare'[t] /\ bare[t] \in Nat
  BY <1>1, SystemMonotone DEF TypeOK
<1>3. bare[t] = 0 /\ t \notin updated /\ bare'[t] = 0
  BY <1>2 DEF Watched
<1>4. tasks'[t].expires = tasks[t].expires
  BY RowStep
     DEF Stays, Expires, Loses, Claims, Cancels, Resumes, Updates, Aborts, Goes, Keeps,
         Completes, CompletesBare, Counts
<1>5. tasks[t].expires > now
  BY <1>1, <1>2, <1>4 DEF Watched
<1>6. \A st \in Reported : ~CompletesBare(t, st)
  BY <1>1, <1>3 DEF CompletesBare, TypeOK
<1> QED
  BY <1>1, <1>3, <1>5, <1>6 DEF Watched, Expires

(* Where a run that is unbegun after the step was before it, and what the    *)
(* step did to its task.                                                     *)
LEMMA WaitingStep ==
  ASSUME StoreFacts, Hands, NoOrphan, Preflights, FALSE \notin NamesRun, [SystemNext]_vars,
         TypeOK', Hands', Work',
         NEW r \in Run, NEW t, t = runs'[r].task, Unbegun(r)', Watched(t)'
  PROVE  /\ t \in Stored /\ Watched(t)
         /\ \/ r \in FreshRun /\ Claims(t) /\ tasks'[t].current = r
            \/ Unbegun(r) /\ r \in Recorded /\ runs[r].task = t
<1>1. TypeOK /\ Work /\ SweepsPast /\ Places
  BY DEF StoreFacts
<1>2. r \in Recorded'
  BY DEF Unbegun, Hands, RunHasOneExecutor
<1>3. CASE r \in Recorded
  <2>1. Unbegun(r)
    BY <1>1, <1>3, UnbegunStep DEF FreshRun
  <2>2. runs[r].task = t
    BY <1>1, <1>3, StoreStep, RecordedKept
  <2>3. t \in Stored
    BY <1>3, <2>2 DEF StoreFacts, RunsFiled
  <2> QED
    BY <1>1, <1>3, <2>1, <2>2, <2>3, WatchedBefore
<1>4. CASE r \notin Recorded
  <2>1. Opens(r)
    BY <1>1, <1>2, <1>4, RunStep DEF Recorded, Swept, Completes, OpenRuns
  <2>2. t \in Stored /\ tasks'[t].current = r /\ r \in FreshRun /\ r # Null
    BY <2>1, ConstantsAssumption DEF Opens
  <2>3. Watched(t) /\ ~Expires(t) /\ \A st \in Reported : ~CompletesBare(t, st)
    BY <1>1, <2>2, WatchedBefore
  <2>4. tasks[t].current # r
    BY <2>2 DEF StoreFacts, Ownership, CurrentRunOwned, FreshRun
  <2>5. t \notin updated'
    BY DEF Watched
  <2>6. Claims(t)
    BY <1>1, <2>2, <2>3, <2>4, <2>5, RowStep
       DEF Stays, Loses, Cancels, Resumes, Updates, Aborts, Goes, Completes, Counts
  <2> QED
    BY <2>2, <2>3, <2>6
<1> QED
  BY <1>3, <1>4

(* A task that is being claimed has no unbegun run.                         *)
LEMMA ClaimedFree ==
  ASSUME StoreFacts, Preflights, FALSE \notin NamesRun, NEW t \in Stored, Watched(t),
         Claims(t), NEW r \in Run, Unbegun(r), runs[r].task = t
  PROVE  FALSE
<1>1. tasks[t].current = r \/ tasks[t].status \in {"failed", "cancelled"}
  BY DEF Preflights, KeepsTask
<1>2. r # Null
  BY ConstantsAssumption
<1> QED
  BY <1>1, <1>2 DEF Claims, StoreFacts, RowsOK, RowOK

(* No step takes the task away from a run that waits, nor adds another.     *)
LEMMA PreflightsStep ==
  ASSUME StoreFacts, Hands, NoOrphan, Preflights, [SystemNext]_vars,
         TypeOK', Hands', Work'
  PROVE  Preflights'
<1> SUFFICES ASSUME FALSE \notin NamesRun, NEW r \in Run, NEW t, t = runs'[r].task,
                    Unbegun(r)', Watched(t)'
             PROVE  /\ \/ tasks'[t].current = r
                       \/ tasks'[t].status \in {"failed", "cancelled"}
                    /\ \A s \in Run : Unbegun(s)' /\ runs'[s].task = t => s = r
  BY DEF Preflights, KeepsTask
<1>1. TypeOK /\ Work /\ SweepsPast /\ Places /\ r # Null
  BY ConstantsAssumption DEF StoreFacts
<1>2. /\ t \in Stored /\ Watched(t) /\ t \notin updated'
      /\ \/ r \in FreshRun /\ Claims(t) /\ tasks'[t].current = r
         \/ Unbegun(r) /\ r \in Recorded /\ runs[r].task = t
  BY WaitingStep DEF Watched
<1>3. ASSUME NEW s \in Run, Unbegun(s)', runs'[s].task = t
      PROVE  \/ s \in FreshRun /\ Claims(t) /\ tasks'[t].current = s
             \/ Unbegun(s) /\ s \in Recorded /\ runs[s].task = t
  BY <1>3, WaitingStep
<1>4. ASSUME NEW s \in Run, Unbegun(s)', runs'[s].task = t
      PROVE  s = r
  <2>1. CASE s \in FreshRun /\ Claims(t) /\ tasks'[t].current = s
    BY <1>2, <2>1, ClaimedFree
  <2>2. CASE Unbegun(s) /\ s \in Recorded /\ runs[s].task = t
    <3>1. ~Claims(t)
      BY <1>2, <2>2, ClaimedFree
    <3>2. Unbegun(r) /\ runs[r].task = t
      BY <1>2, <3>1
    <3> QED
      BY <1>2, <2>2, <3>2 DEF Preflights, KeepsTask
  <2> QED
    BY <1>3, <1>4, <2>1, <2>2
<1>5. ASSUME Unbegun(r), r \in Recorded, runs[r].task = t
      PROVE  tasks'[t].current = r \/ tasks'[t].status \in {"failed", "cancelled"}
  <2>1. /\ tasks[t].current = r \/ tasks[t].status \in {"failed", "cancelled"}
        /\ \A s \in Run : Unbegun(s) /\ runs[s].task = t => s = r
    BY <1>2, <1>5 DEF Preflights, KeepsTask
  <2>2. tasks[t].current = r => tasks[t].status = "running"
    BY <1>1, <1>2 DEF StoreFacts, RowsOK, RowOK
  <2>3. ~Expires(t) /\ \A st \in Reported : ~CompletesBare(t, st)
    BY <1>1, <1>2, WatchedBefore
  <2>4. CASE Stays(t)
    BY <2>1, <2>4 DEF Stays, Goes
  <2>5. CASE Loses(t) \/ Cancels(t)
    BY <2>5 DEF Loses, Cancels, Goes
  <2>6. ~Claims(t)
    BY <1>2, <1>5, ClaimedFree
  <2>7. ~Resumes(t) /\ ~Updates(t)
    BY <1>2, <2>1, <2>2 DEF Resumes, Updates
  <2>8. ~Aborts(t)
    <3> SUFFICES ASSUME NEW d \in Daemon, PreflightBlocks(d), Job(d).task = t
                 PROVE  FALSE
      BY DEF Aborts
    <3>1. pc[d] = "task" /\ pc[d] \in Busy /\ NextJob(d)
      BY DEF PreflightBlocks, Busy
    <3>2. Job(d).run \in Run /\ Unbegun(Job(d).run) /\ runs[Job(d).run].task = t
      BY <1>1, <3>1, JobFacts, JobUnbegun
    <3>3. Job(d).run = r
      BY <2>1, <3>2
    <3> QED
      BY <1>1, <3>1, <3>3, JobDone
  <2>9. ASSUME NEW q \in Run, NEW st \in Reported, Completes(t, q, st) PROVE FALSE
    <3>1. tasks[t].current = q /\ tasks[t].status = "running"
      BY <1>2, <2>9, CompletesCurrent DEF Watched
    <3>2. q = r /\ t \in Task
      BY <1>2, <2>1, <3>1 DEF Stored
    <3>3. turn[r] = "live" \/ \E d \in Daemon : Report(d) /\ Job(d).run = r
      BY <1>1, <2>9, <3>2, SignedBy
    <3>4. turn[r] = "none"
      BY <1>1, <1>5, UnbegunHeld
    <3>5. ASSUME NEW d \in Daemon, Report(d) PROVE Job(d).run # r
      BY <1>1, <1>5, <3>5, ReportBegun DEF Report, Busy
    <3> QED
      BY <3>3, <3>4, <3>5
  <2> QED
    BY <1>1, <1>2, <2>3, <2>4, <2>5, <2>6, <2>7, <2>8, <2>9, RowStep
<1> QED
  BY <1>2, <1>4, <1>5

-----------------------------------------------------------------------------
(* The composed system *)

(* Runs that wait for their turn keep their tasks, in every reachable state. *)
THEOREM PreflightsInvariant == SystemSpec => []Preflights
<1>1. SystemInit => Preflights
  <2> SUFFICES ASSUME SystemInit, NEW r \in Run PROVE ~Unbegun(r)
    BY DEF Preflights
  <2>1. \A d \in Daemon : DOMAIN batch[d] = {}
    BY DEF SystemInit
  <2> QED
    BY <2>1 DEF Unbegun
<1>2. TurnsInv /\ TurnsInv' /\ Preflights /\ [SystemNext]_vars => Preflights'
  BY TurnsInvFacts, PreflightsStep DEF TurnsInv, SystemInv
<1> QED
  BY <1>1, <1>2, TurnsInvariant, PTL DEF SystemSpec

(* The step of a failed preflight that writes a run off.                    *)
LEMMA PreflightOwn ==
  ASSUME StoreFacts, Hands, Preflights, [SystemNext]_vars,
         NEW r \in OpenRuns(Stored \ updated),
         runs'[r].source = "scheduler_preflight", FALSE \notin NamesRun,
         bare[runs[r].task] = 0, tasks[runs[r].task].expires > now
  PROVE  \E d \in Daemon : batch[d] # <<>> /\ batch'[d] = Tail(batch[d]) /\ Job(d).run = r
<1>1. TypeOK /\ Work /\ SweepsPast
  BY DEF StoreFacts
<1>2. /\ r \in Run /\ r \in Recorded /\ r \in OpenRuns(Task) /\ r # Null
      /\ runs[r].source = Null /\ Null # "scheduler_preflight"
  BY ConstantsAssumption DEF OpenRuns, Recorded, Stored, StoreFacts, RunsFiled, SweepSource
<1>3. PICK d \in Daemon : PreflightBlocks(d)
  BY <1>1, <1>2, OnlyPreflight
<1>4. pc[d] = "task" /\ pc[d] \in Busy
  BY <1>3 DEF PreflightBlocks, Busy
<1>5. /\ Job(d).task \in Stored /\ AbortCurrentRun(Job(d).task, "paused")
      /\ Job(d).run \in Run /\ Unbegun(Job(d).run) /\ runs[Job(d).run].task = Job(d).task
  BY <1>1, <1>3, <1>4, JobFacts, JobUnbegun, PreflightIsStore DEF AbortCurrentRun
<1>6. r = tasks[Job(d).task].current
  BY <1>2, <1>5 DEF AbortCurrentRun
<1>7. runs[r].task = Job(d).task
  BY <1>2, <1>5, <1>6 DEF StoreFacts, Ownership, CurrentRunOwned
<1>8. tasks[Job(d).task].status = "running"
  BY <1>2, <1>5, <1>6 DEF StoreFacts, RowsOK, RowOK
<1>9. Watched(Job(d).task)
  BY <1>7 DEF Watched, OpenRuns
<1>10. Job(d).run = r
  BY <1>5, <1>6, <1>8, <1>9 DEF Preflights, KeepsTask
<1>11. batch[d] # <<>> /\ batch'[d] = Tail(batch[d])
  BY <1>1, <1>3, <1>4 DEF PreflightBlocks, NextJob, Work
<1> QED
  BY <1>10, <1>11

(* A failed preflight, which ends whatever run its task has by then, ends    *)
(* the run of the snapshot the daemon holds.                                 *)
THEOREM PreflightsEndOwnRun == SystemSpec => PreflightFailsOwnRun
<1>1. TurnsInv /\ Preflights /\ [SystemNext]_vars =>
        [\A r \in OpenRuns(Stored \ updated) :
           /\ runs'[r].source = "scheduler_preflight"
           /\ FALSE \notin NamesRun
           /\ bare[runs[r].task] = 0
           /\ tasks[runs[r].task].expires > now
           => \E d \in Daemon : batch[d] # <<>> /\ batch'[d] = Tail(batch[d])
                                /\ Job(d).run = r]_vars
  BY TurnsInvFacts, PreflightOwn DEF TurnsInv, SystemInv
<1> QED
  BY <1>1, TurnsInvariant, PreflightsInvariant, PTL DEF SystemSpec, PreflightFailsOwnRun

-----------------------------------------------------------------------------
(* When turns begin *)

(* When turns name their runs, nobody has reported a run whose turn has not  *)
(* begun yet.                                                                *)
UnbegunUnreported ==
  FALSE \notin NamesRun => \A r \in Run : Unbegun(r) => r \in Unreported(runs[r].task)

LEMMA UnbegunUnreportedStep ==
  ASSUME StoreFacts, Hands, UnbegunUnreported, [SystemNext]_vars, Hands'
  PROVE  UnbegunUnreported'
<1> SUFFICES ASSUME FALSE \notin NamesRun, NEW r \in Run, Unbegun(r)'
             PROVE  r \in Recorded' /\ runs'[r].source \notin CompletionSource
  BY DEF UnbegunUnreported, Unreported
<1>1. TypeOK /\ Work /\ SweepsPast
  BY DEF StoreFacts
<1>2. r \in Recorded'
  BY DEF Unbegun, Hands, RunHasOneExecutor
<1>3. CASE r \in FreshRun
  <2>1. Opens(r)
    BY <1>1, <1>2, <1>3, RunStep DEF Recorded, FreshRun, Swept, Completes, OpenRuns
  <2> QED
    BY <1>2, <2>1, ConstantsAssumption DEF Opens
<1>4. CASE Unbegun(r)
  <2>1. r \in Recorded /\ turn[r] = "none" /\ runs[r].source \notin CompletionSource
    BY <1>1, <1>4, UnbegunHeld DEF UnbegunUnreported, Unreported
  <2>2. ~Opens(r)
    BY <2>1 DEF Opens, FreshRun
  <2>3. ASSUME NEW t \in Task, NEW st \in Reported, Completes(t, r, st) PROVE FALSE
    <3>1. PICK d \in Daemon : Report(d) /\ Job(d).run = r
      BY <1>1, <2>1, <2>3, SignedBy
    <3> QED
      BY <1>1, <1>4, <3>1, ReportBegun DEF Report, Busy
  <2>4. CASE Swept(r)
    BY <1>2, <2>4, ConstantsAssumption DEF Swept
  <2> QED
    BY <1>1, <1>2, <2>1, <2>2, <2>3, <2>4, RunStep
<1> QED
  BY <1>1, <1>3, <1>4, UnbegunStep

(* Nobody reports a run before its turn, in every reachable state.           *)
THEOREM UnbegunInvariant == SystemSpec => []UnbegunUnreported
<1>1. SystemInit => UnbegunUnreported
  <2> SUFFICES ASSUME SystemInit, NEW r \in Run PROVE ~Unbegun(r)
    BY DEF UnbegunUnreported
  <2>1. \A d \in Daemon : DOMAIN batch[d] = {}
    BY DEF SystemInit
  <2> QED
    BY <2>1 DEF Unbegun
<1>2. TurnsInv /\ TurnsInv' /\ UnbegunUnreported /\ [SystemNext]_vars => UnbegunUnreported'
  BY TurnsInvFacts, UnbegunUnreportedStep DEF TurnsInv, SystemInv
<1> QED
  BY <1>1, <1>2, TurnsInvariant, PTL DEF SystemSpec

(* A turn begins in the daemon that holds its run, or in the session of the  *)
(* Stop hook that acquires it; either way its run is unreported.             *)
LEMMA BeginsUnreported ==
  ASSUME StoreFacts, Hands, UnbegunUnreported, [SystemNext]_vars, FALSE \notin NamesRun,
         NEW r \in Run, turn[r] = "none", turn'[r] = "live"
  PROVE  r \in Recorded' /\ runs'[r].source \notin CompletionSource
<1> USE SystemAssumption
<1>1. TypeOK /\ Work
  BY DEF StoreFacts
<1>2. ASSUME NEW d \in Daemon, TurnBegins(d)
      PROVE  r \in Recorded' /\ runs'[r].source \notin CompletionSource
  <2>1. r = Job(d).run
    BY <1>1, <1>2 DEF TurnBegins, Work
  <2>2. Unbegun(r)
    BY <1>1, <1>2, <2>1, JobUnbegun DEF TurnBegins
  <2>3. runs' = runs
    BY <1>2 DEF TurnBegins, svars
  <2> QED
    BY <2>2, <2>3 DEF UnbegunUnreported, Unreported, Recorded
<1>3. ASSUME NEW d \in Daemon, DaemonStep(d) \/ Crash(d), ~TurnBegins(d)
      PROVE  FALSE
  <2>1. turn'[r] # "live"
    <3>1. turn' = turn => turn'[r] # "live"
      OBVIOUS
    <3>2. turn' = [turn EXCEPT ![Job(d).run] = "over"] => turn'[r] # "live"
      BY <1>1 DEF Work
    <3> QED
      BY <1>3, <3>1, <3>2
         DEF DaemonStep, BeginSweep, EndSweep, DaemonAcquires, PreflightBlocks,
             RunnerSkipsTurn, TurnReturns, TurnRaises, Rebind, Report, Restart, Crash
  <2> QED
    BY <2>1
<1>4. ASSUME NEW h \in Hook, HookStep(h)
      PROVE  r \in Recorded' /\ runs'[r].source \notin CompletionSource
  <2>1. HookAcquires(h)
    BY <1>4 DEF HookStep, BeginSweep, EndSweep, HookGivesUp
  <2>2. r \in FreshRun /\ r \in Recorded'
    BY <1>1, <2>1, HookTurns DEF Work
  <2>3. Opens(r)
    BY <1>1, <2>2, RunStep DEF Recorded, FreshRun, Swept, Completes, OpenRuns, StoreFacts
  <2> QED
    BY <2>2, <2>3, ConstantsAssumption DEF Opens
<1>5. ASSUME NEW q \in Run, TurnStep(q) PROVE FALSE
  BY <1>1, <1>5 DEF TurnStep, TurnReports, TurnEnds, pvars, Work
<1>6. ASSUME NEW t \in Task, UserStep(t) PROVE FALSE
  BY <1>6 DEF UserStep, UserCreates, UserUpdates, UserCancels, UserBinds, pvars
<1>7. CASE Passes \/ ClientOpens \/ UNCHANGED vars
  BY <1>7 DEF Passes, ClientOpens, vars, pvars
<1> QED
  BY <1>2, <1>3, <1>4, <1>5, <1>6, <1>7 DEF SystemNext

(* However old the snapshot it begins from, a turn begins only when no       *)
(* earlier iteration of its task is still to be reported.                    *)
THEOREM TurnsBeginAfterReports == SystemSpec => BeginsAfterReports
<1>1. TurnsInv /\ TurnsInv' /\ UnbegunUnreported /\ [SystemNext]_vars =>
        [\A r \in Run, t \in Task :
           /\ turn[r] = "none" /\ turn'[r] = "live"
           /\ runs'[r].task = t
           /\ FALSE \notin NamesRun
           => /\ r \in Unreported(t)'
              /\ Cardinality(Unreported(t)') <= 1 + resumes'[t] + bare'[t]]_vars
  <2> SUFFICES ASSUME TurnsInv, TurnsInv', UnbegunUnreported, [SystemNext]_vars,
                      NEW r \in Run, NEW t \in Task,
                      turn[r] = "none", turn'[r] = "live", runs'[r].task = t,
                      FALSE \notin NamesRun
               PROVE  /\ r \in Unreported(t)'
                      /\ Cardinality(Unreported(t)') <= 1 + resumes'[t] + bare'[t]
    OBVIOUS
  <2>1. StoreFacts /\ Hands /\ StoreFacts' /\ TurnBudgets'
    BY DEF TurnsInv, SystemInv, CountInv, StoreInv, StoreFacts
  <2>2. r \in Unreported(t)'
    BY <2>1, BeginsUnreported DEF Unreported
  <2>3. t \in Stored'
    BY <2>1, <2>2 DEF StoreFacts, RunsFiled, Unreported
  <2>4. Debt(t)' + 0 <= 1 + Slack(t)' /\ IsFiniteSet(Unreported(t)')
    BY <2>1, <2>3 DEF TurnBudgets, TurnBudget, Room
  <2>5. Cardinality(Unreported(t)') \in Nat /\ resumes'[t] \in Nat /\ bare'[t] \in Nat
    BY <2>1, <2>4, FS_CardinalityType DEF StoreFacts, Places, TypeOK
  <2> QED
    BY <2>2, <2>4, <2>5 DEF Debt, Slack
<1> QED
  BY <1>1, TurnsInvariant, UnbegunInvariant, PTL DEF SystemSpec, BeginsAfterReports

=============================================================================
