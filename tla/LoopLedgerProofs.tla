-------------------------- MODULE LoopLedgerProofs --------------------------
(* What each operation of LoopStore does to the columns that matter, and    *)
(* the proofs that iterations are counted exactly, that the store keeps the *)
(* ledger of runs, and that retired tasks are revived only on purpose.      *)
EXTENDS LoopStoreProofs, FiniteSetTheorems

-----------------------------------------------------------------------------
(* The effects of a step on one row or one run *)

\* A stored row keeps the columns no operation but a completion writes.
Keeps(t) ==
  /\ tasks'[t] \in TaskRow
  /\ tasks'[t].expires = tasks[t].expires
  /\ tasks'[t].runCount = tasks[t].runCount
  /\ tasks'[t].failures = tasks[t].failures
  /\ tasks'[t].args = tasks[t].args

Goes(t, st, r) == Keeps(t) /\ tasks'[t].status = st /\ tasks'[t].current = r

Stays(t) == Goes(t, tasks[t].status, tasks[t].current)

Expires(t) ==
  /\ tasks[t].expires <= now
  /\ tasks[t].status \in Live
  /\ Goes(t, "expired", Null)

Loses(t) ==
  /\ tasks[t].status = "running"
  /\ Goes(t, "failed", Null)
  /\ \A r \in OpenRuns({t}) : runs'[r].status # "running"

Claims(t) ==
  /\ tasks[t].status = "active"
  /\ Goes(t, "running", tasks'[t].current)
  /\ tasks'[t].current \in FreshRun

\* A run begins, as the only new one of its task.
Opens(r) ==
  /\ r \in FreshRun
  /\ runs'[r] \in RunRow
  /\ runs'[r].status = "running"
  /\ runs'[r].source = Null
  /\ runs'[r].task \in Stored
  /\ tasks'[runs'[r].task].current = r

\* A run is written off.
Swept(r) ==
  /\ r \in OpenRuns(Task)
  /\ runs'[r] \in RunRow
  /\ runs'[r].task = runs[r].task
  /\ runs'[r].status = "failed"
  /\ runs'[r].source \in SweepSource

RunsTurnOver == \A r \in Run : runs'[r] = runs[r] \/ Opens(r) \/ Swept(r)

-----------------------------------------------------------------------------
(* The effects of a whole step *)

\* No iteration is counted.
Plain ==
  /\ Stored' = Stored
  /\ bare' = bare
  /\ now <= now'
  /\ RunsTurnOver
  /\ \A t \in Stored : Stays(t) \/ Expires(t) \/ Loses(t) \/ Claims(t)

\* The row of a task whose iteration is counted with the status st.
Counts(t, st) ==
  /\ t \in Stored
  /\ st \in Reported
  /\ Stored' = Stored
  /\ now' = now
  /\ \A u \in Stored \ {t} : tasks'[u] = tasks[u]
  /\ tasks'[t] \in TaskRow
  /\ tasks'[t].status = FinalStatus(tasks[t], st)
  /\ tasks'[t].current = Null
  /\ tasks'[t].expires = tasks[t].expires
  /\ tasks'[t].args = tasks[t].args
  /\ tasks'[t].runCount = tasks[t].runCount + 1
  /\ tasks'[t].failures = IF st = "failed" /\ ~tasks[t].cancel
                          THEN tasks[t].failures + 1 ELSE tasks[t].failures

Completes(t, r, st) ==
  /\ Counts(t, st)
  /\ bare' = bare
  /\ r \in OpenRuns({t})
  /\ runs'[r] \in RunRow
  /\ runs'[r].task = t
  /\ runs'[r].status # "running"
  /\ runs'[r].source \in CompletionSource
  /\ \A s \in Run \ {r} : runs'[s] = runs[s]

CompletesBare(t, st) ==
  /\ Counts(t, st)
  /\ tasks[t].current = Null
  /\ bare' = [bare EXCEPT ![t] = @ + 1]
  /\ runs' = runs

(* The steps of the processes that serve a task, failed preflights excepted: *)
(* those that end no iteration, and those that do.                           *)
Quiet ==
  \/ Tick
  \/ OpenStore
  \/ \E t \in Task, th \in Thread : ReplaceTaskThread(t, th)
  \/ \E p \in Proc : Sweeps(p)
  \/ Acquire

Served ==
  \/ Quiet
  \/ \E t \in Task, rid \in Run \cup {Null}, st \in Reported, d \in Delays,
        th \in Reports, src \in CompletionSource, c \in Stamp :
       CompleteIteration(t, rid, st, d, th, src, c)

-----------------------------------------------------------------------------
(* Row by row, operation by operation *)

(* A row that is not written stays.                                         *)
LEMMA UntouchedStays ==
  ASSUME TypeOK, NEW t \in Stored, tasks'[t] = tasks[t]
  PROVE  Stays(t) /\ tasks'[t] # Null
BY StoredRow DEF Stays, Goes, Keeps, Stored

(* An operation that writes one row.                                        *)
LEMMA OneRow ==
  ASSUME TypeOK, NEW t \in Stored, NEW row \in TaskRow, tasks' = [tasks EXCEPT ![t] = row]
  PROVE  /\ t \in Task
         /\ Stored' = Stored
         /\ tasks'[t] = row
         /\ \A u \in Task \ {t} : tasks'[u] = tasks[u]
BY NullAssumption DEF TypeOK, Stored

(* Releasing a row keeps its columns.                                       *)
LEMMA ReleaseKeeps ==
  ASSUME NEW row \in TaskRow, NEW st \in Status
  PROVE  /\ Release(row, st) \in TaskRow
         /\ Release(row, st).status = st
         /\ Release(row, st).current = Null
         /\ Release(row, st).expires = row.expires
         /\ Release(row, st).runCount = row.runCount
         /\ Release(row, st).failures = row.failures
         /\ Release(row, st).args = row.args
BY DEF Release, TaskRow

(* create_task inserts an active row and touches no other.                  *)
LEMMA CreateStep ==
  ASSUME TypeOK, NEW t \in Task, NEW args \in CreateArgs, NEW th \in Thread \cup {Current},
         NEW c \in Stamp, CreateTask(t, args, th, c)
  PROVE  /\ t \notin Stored
         /\ Stored' = Stored \cup {t}
         /\ UNCHANGED <<runs, now, bare, detached>>
         /\ \A u \in Task \ {t} : tasks'[u] = tasks[u]
         /\ tasks'[t] \in TaskRow
         /\ tasks'[t].status = "active"
         /\ tasks'[t].current = Null
         /\ tasks'[t].runCount = 0
         /\ tasks'[t].failures = 0
<1>1. NewTask(args, th, c) \in TaskRow
  BY NewTaskType DEF Stamp
<1>2. tasks'[t] = NewTask(args, th, c) /\ \A u \in Task \ {t} : tasks'[u] = tasks[u]
  BY DEF CreateTask, TypeOK
<1>3. Stored' = Stored \cup {t}
  BY <1>1, <1>2, NullAssumption DEF Stored
<1> QED
  BY <1>1, <1>2, <1>3 DEF CreateTask, NewTask

(* update_status sets the status and releases the task.                     *)
LEMMA UpdateStep ==
  ASSUME TypeOK, NEW t \in Task, NEW st \in Settable, UpdateStatus(t, st)
  PROVE  /\ t \in Stored
         /\ Stored' = Stored
         /\ UNCHANGED <<runs, now, bare>>
         /\ \A u \in Task \ {t} : tasks'[u] = tasks[u]
         /\ Goes(t, st, Null)
<1>1. t \in Stored /\ tasks[t] \in TaskRow /\ st \in Status
  BY StoredRow DEF UpdateStatus, Settable, Status
<1>2. tasks' = [tasks EXCEPT ![t] = Release(tasks[t], st)]
  BY DEF UpdateStatus, Updated
<1>3. /\ Stored' = Stored /\ tasks'[t] = Release(tasks[t], st) /\ t \in Task
      /\ \A u \in Task \ {t} : tasks'[u] = tasks[u]
  BY <1>1, <1>2, OneRow, ReleaseKeeps
<1>4. Goes(t, st, Null)
  BY <1>1, <1>3, ReleaseKeeps DEF Goes, Keeps
<1> QED
  BY <1>1, <1>3, <1>4 DEF UpdateStatus

(* request_cancel marks a running task and retires any other.               *)
LEMMA CancelStep ==
  ASSUME TypeOK, NEW t \in Task, RequestCancel(t)
  PROVE  /\ t \in Stored
         /\ Stored' = Stored
         /\ UNCHANGED <<runs, now, bare>>
         /\ \A u \in Task \ {t} : tasks'[u] = tasks[u]
         /\ \/ tasks[t].status = "running" /\ Stays(t)
            \/ tasks[t].status # "running" /\ Goes(t, "cancelled", Null)
<1> DEFINE rel == Release(tasks[t], "cancelled")
           row == IF tasks[t].status = "running" THEN [tasks[t] EXCEPT !.cancel = TRUE]
                  ELSE [rel EXCEPT !.cancel = FALSE]
<1>1. t \in Stored /\ tasks[t] \in TaskRow
  BY StoredRow DEF RequestCancel
<1>2. /\ rel \in TaskRow /\ rel.status = "cancelled" /\ rel.current = Null
      /\ rel.expires = tasks[t].expires /\ rel.runCount = tasks[t].runCount
      /\ rel.failures = tasks[t].failures /\ rel.args = tasks[t].args
  BY <1>1, ReleaseKeeps DEF Status
<1>3. tasks' = [tasks EXCEPT ![t] = row]
  BY DEF RequestCancel
<1> HIDE DEF rel
<1>4. /\ row \in TaskRow
      /\ row.expires = tasks[t].expires /\ row.runCount = tasks[t].runCount
      /\ row.failures = tasks[t].failures /\ row.args = tasks[t].args
      /\ IF tasks[t].status = "running"
         THEN row.status = tasks[t].status /\ row.current = tasks[t].current
         ELSE row.status = "cancelled" /\ row.current = Null
  BY <1>1, <1>2 DEF TaskRow
<1> HIDE DEF row
<1>5. t \in Task /\ Stored' = Stored /\ tasks'[t] = row /\ \A u \in Task \ {t} : tasks'[u] = tasks[u]
  BY <1>1, <1>3, <1>4, OneRow
<1>6. UNCHANGED <<runs, now, bare>>
  BY DEF RequestCancel
<1>7. CASE tasks[t].status = "running"
  BY <1>1, <1>4, <1>5, <1>6, <1>7 DEF Goes, Keeps, Stays
<1>8. CASE tasks[t].status # "running"
  BY <1>1, <1>4, <1>5, <1>6, <1>8 DEF Goes, Keeps
<1> QED
  BY <1>7, <1>8

(* bind_task_thread may activate a paused task, and nothing else.           *)
LEMMA BindStep ==
  ASSUME TypeOK, NEW t \in Task, NEW th \in Thread, NEW resume \in BOOLEAN,
         BindTaskThread(t, th, resume)
  PROVE  /\ t \in Stored
         /\ Stored' = Stored
         /\ UNCHANGED <<runs, now, bare>>
         /\ \A u \in Task \ {t} : tasks'[u] = tasks[u]
         /\ \/ Stays(t)
            \/ resume /\ tasks[t].status = "paused" /\ Goes(t, "active", tasks[t].current)
<1> DEFINE st  == IF resume /\ tasks[t].status = "paused" THEN "active" ELSE tasks[t].status
           row == [tasks[t] EXCEPT !.thread = th, !.bound = TRUE, !.status = st]
<1>1. t \in Stored /\ tasks[t] \in TaskRow
  BY StoredRow DEF BindTaskThread
<1>2. st \in Status
  BY <1>1 DEF TaskRow, Status
<1>3. tasks' = [tasks EXCEPT ![t] = row]
  BY DEF BindTaskThread
<1> HIDE DEF st
<1>4. /\ row \in TaskRow /\ row.status = st /\ row.current = tasks[t].current
      /\ row.expires = tasks[t].expires /\ row.runCount = tasks[t].runCount
      /\ row.failures = tasks[t].failures /\ row.args = tasks[t].args
  BY <1>1, <1>2 DEF TaskRow
<1> HIDE DEF row
<1>5. Goes(t, st, tasks[t].current)
  BY <1>1, <1>3, <1>4, OneRow DEF Goes, Keeps
<1> QED
  BY <1>1, <1>3, <1>4, <1>5, OneRow DEF BindTaskThread, Stays, st

(* replace_task_thread leaves everything but the thread.                    *)
LEMMA ReplaceStep ==
  ASSUME TypeOK, NEW t \in Task, NEW th \in Thread, ReplaceTaskThread(t, th)
  PROVE  Plain /\ now' = now /\ runs' = runs
<1> DEFINE row == [tasks[t] EXCEPT !.thread = th, !.bound = TRUE]
<1>1. t \in Stored /\ tasks[t] \in TaskRow
  BY StoredRow DEF ReplaceTaskThread
<1>2. tasks' = [tasks EXCEPT ![t] = row]
  BY DEF ReplaceTaskThread
<1>3. /\ row \in TaskRow /\ row.status = tasks[t].status /\ row.current = tasks[t].current
      /\ row.expires = tasks[t].expires /\ row.runCount = tasks[t].runCount
      /\ row.failures = tasks[t].failures /\ row.args = tasks[t].args
  BY <1>1 DEF TaskRow
<1> HIDE DEF row
<1>4. /\ Stored' = Stored /\ tasks'[t] = row
      /\ \A u \in Task \ {t} : tasks'[u] = tasks[u]
  BY <1>1, <1>2, <1>3, OneRow
<1>5. Stays(t)
  BY <1>3, <1>4 DEF Stays, Goes, Keeps
<1>6. \A u \in Stored \ {t} : Stays(u)
  BY <1>4, UntouchedStays DEF Stored
<1> QED
  BY <1>4, <1>5, <1>6 DEF Plain, RunsTurnOver, ReplaceTaskThread, TypeOK

(* Time passes.                                                             *)
LEMMA TickStep ==
  ASSUME TypeOK, Tick
  PROVE  Plain
<1>1. \A t \in Stored : Stays(t)
  BY UntouchedStays DEF Tick
<1> QED
  BY <1>1 DEF Tick, Plain, RunsTurnOver, Stored, TypeOK

(* The migration changes no column but bound.                               *)
LEMMA OpenStep ==
  ASSUME TypeOK, OpenStore
  PROVE  Plain /\ now' = now /\ runs' = runs
<1>1. ASSUME NEW t \in Stored PROVE Stays(t) /\ tasks'[t] # Null
  <2> DEFINE row == [tasks[t] EXCEPT !.bound = TRUE]
  <2>1. t \in Task /\ tasks[t] \in TaskRow
    BY StoredRow
  <2>2. tasks'[t] = row \/ tasks'[t] = tasks[t]
    BY <2>1 DEF OpenStore
  <2>3. /\ row \in TaskRow /\ row.status = tasks[t].status /\ row.current = tasks[t].current
        /\ row.expires = tasks[t].expires /\ row.runCount = tasks[t].runCount
        /\ row.failures = tasks[t].failures /\ row.args = tasks[t].args
    BY <2>1 DEF TaskRow
  <2> HIDE DEF row
  <2> QED
    BY <2>1, <2>2, <2>3, NullAssumption DEF Stays, Goes, Keeps
<1>2. Stored' = Stored
  BY <1>1 DEF OpenStore, Stored
<1>3. now' = now /\ runs' = runs /\ bare' = bare /\ now <= now'
  BY DEF OpenStore, TypeOK
<1> QED
  BY <1>1, <1>2, <1>3 DEF Plain, RunsTurnOver

(* Failing the open runs of some tasks writes those runs off.               *)
LEMMA FailRunsStep ==
  ASSUME TypeOK, NEW ts, NEW src \in SweepSource, FailRunsOf(ts, src)
  PROVE  \A r \in Run : IF r \in OpenRuns(ts) THEN Swept(r) ELSE runs'[r] = runs[r]
<1> SUFFICES ASSUME NEW r \in OpenRuns(ts) PROVE Swept(r)
  BY DEF FailRunsOf
<1>1. r \in Run /\ runs[r] \in RunRow /\ runs'[r] = Ended(runs[r], "failed", src)
  BY OpenRunIsRow DEF FailRunsOf
<1>2. "failed" \in RunStatus /\ src \in CompletionSource \cup SweepSource
  BY DEF RunStatus
<1>3. r \in OpenRuns(Task)
  BY <1>1 DEF OpenRuns, RunRow
<1> QED
  BY <1>1, <1>2, <1>3, EndedType DEF Swept

(* Either statement of an expiry sweep.                                     *)
LEMMA SweepsStep ==
  ASSUME TypeOK, SweepsPast, NEW p \in Proc, Sweeps(p)
  PROVE  Plain /\ now' = now
<1>1. CASE \E c \in Stamp : ExpireRuns(p, c)
  <2>1. tasks' = tasks /\ now' = now /\ bare' = bare /\ RunsTurnOver
    BY <1>1, FailRunsStep DEF ExpireRuns, RunsTurnOver, SweepSource
  <2> QED
    BY <2>1, UntouchedStays DEF Plain, Stored, TypeOK
<1>2. CASE ExpireTasks(p)
  <2>1. ASSUME NEW t \in Stored PROVE (Stays(t) \/ Expires(t)) /\ tasks'[t] # Null
    <3>1. t \in Task /\ tasks[t] \in TaskRow
      BY StoredRow
    <3>2. CASE t \in PastExpiry(sweep[p])
      <4>1. tasks'[t] = Release(tasks[t], "expired") /\ tasks[t].status \in Live
        BY <1>2, <3>1, <3>2 DEF ExpireTasks, PastExpiry
      <4>2. tasks[t].expires <= now
        <5>1. tasks[t].expires <= sweep[p] /\ tasks[t].expires \in Nat
          BY <3>1, <3>2 DEF PastExpiry, TaskRow
        <5>2. sweep[p] <= now /\ sweep[p] \in Nat /\ now \in Nat
          BY <1>2 DEF ExpireTasks, SweepsPast, TypeOK
        <5> QED
          BY <5>1, <5>2
      <4>3. "expired" \in Status
        BY DEF Status
      <4> QED
        BY <3>1, <4>1, <4>2, <4>3, ReleaseKeeps, NullAssumption DEF Expires, Goes, Keeps
    <3>3. CASE t \notin PastExpiry(sweep[p])
      BY <1>2, <3>1, <3>3, UntouchedStays DEF ExpireTasks
    <3> QED
      BY <3>2, <3>3
  <2>2. Stored' = Stored
    BY <1>2, <2>1 DEF ExpireTasks, PastExpiry, Stored
  <2>3. runs' = runs /\ bare' = bare /\ now' = now /\ now <= now
    BY <1>2 DEF ExpireTasks, TypeOK
  <2>4. RunsTurnOver
    BY <2>3 DEF RunsTurnOver
  <2> QED
    BY <2>1, <2>2, <2>3, <2>4 DEF Plain
<1>3. CASE AbandonSweep(p)
  BY <1>3, UntouchedStays DEF AbandonSweep, Plain, RunsTurnOver, Stored, TypeOK
<1> QED
  BY <1>1, <1>2, <1>3 DEF Sweeps

(* What the parameters of an acquisition are.                               *)
LEMMA AcquireTables ==
  ASSUME TypeOK, NEW c \in Stamp, NEW limit, NEW th, NEW claim,
         AcquireDueTasks(claim, c, limit, th)
  PROVE  /\ DOMAIN claim \subseteq Stored
         /\ \A t \in DOMAIN claim : tasks[t].status = "active"
         /\ \A t \in DOMAIN claim : claim[t] \in FreshRun
         /\ \A t \in DOMAIN claim : tasks'[t] = Claimed(tasks[t], claim[t], c)
         /\ \A t \in DOMAIN claim : runs'[claim[t]] = NewRun(t)
         /\ \A t \in Task \ DOMAIN claim :
              tasks'[t] = IF t \in LeaseRanOut(c) THEN Release(tasks[t], "failed") ELSE tasks[t]
         /\ \A r \in Run : (\E t \in DOMAIN claim : claim[t] = r) \/
              runs'[r] = IF r \in OpenRuns(LeaseRanOut(c))
                         THEN Ended(runs[r], "failed", "lease_expired") ELSE runs[r]
<1>1. /\ DOMAIN claim \subseteq Stored
      /\ \A t \in DOMAIN claim : claim[t] \in FreshRun /\ tasks[t].status = "active"
      /\ \A t, u \in DOMAIN claim : claim[t] = claim[u] => t = u
  BY AcquireType DEF Due
<1>2. \A t \in DOMAIN claim : runs'[claim[t]] = NewRun(t)
  <2> SUFFICES ASSUME NEW t \in DOMAIN claim PROVE runs'[claim[t]] = NewRun(t)
    OBVIOUS
  <2>1. (CHOOSE u \in DOMAIN claim : claim[u] = claim[t]) = t
    BY <1>1
  <2> QED
    BY <1>1, <2>1 DEF AcquireDueTasks, FreshRun
<1>3. \A t \in DOMAIN claim : tasks'[t] = Claimed(tasks[t], claim[t], c)
  BY <1>1 DEF AcquireDueTasks, Stored
<1>4. \A t \in Task \ DOMAIN claim :
        tasks'[t] = IF t \in LeaseRanOut(c) THEN Release(tasks[t], "failed") ELSE tasks[t]
  BY DEF AcquireDueTasks
<1>5. \A r \in Run : (\E t \in DOMAIN claim : claim[t] = r) \/
        runs'[r] = IF r \in OpenRuns(LeaseRanOut(c))
                   THEN Ended(runs[r], "failed", "lease_expired") ELSE runs[r]
  BY DEF AcquireDueTasks
<1> QED
  BY <1>1, <1>2, <1>3, <1>4, <1>5

(* acquire_due_tasks fails the tasks whose lease ran out, with their runs,  *)
(* and gives each task it claims a run of its own.                          *)
LEMMA AcquireStep ==
  ASSUME TypeOK, NEW c \in Stamp, NEW limit, NEW th, NEW claim,
         AcquireDueTasks(claim, c, limit, th)
  PROVE  Plain /\ now' = now
<1>1. c + Lease \in Nat
  BY ConstantsAssumption DEF Stamp
<1>2. ASSUME NEW t \in DOMAIN claim
      PROVE  /\ Claims(t)
             /\ tasks'[t] # Null
             /\ tasks'[t].current = claim[t]
             /\ Opens(claim[t])
  <2>1. /\ t \in Stored /\ t \in Task /\ tasks[t] \in TaskRow /\ tasks[t].status = "active"
        /\ claim[t] \in FreshRun /\ claim[t] \in Run
        /\ tasks'[t] = Claimed(tasks[t], claim[t], c)
        /\ runs'[claim[t]] = NewRun(t)
    BY AcquireTables, StoredRow DEF FreshRun
  <2>2. /\ tasks'[t] \in TaskRow /\ tasks'[t].status = "running"
        /\ tasks'[t].current = claim[t]
        /\ tasks'[t].expires = tasks[t].expires /\ tasks'[t].runCount = tasks[t].runCount
        /\ tasks'[t].failures = tasks[t].failures /\ tasks'[t].args = tasks[t].args
    BY <1>1, <2>1 DEF Claimed, TaskRow, Status
  <2>3. /\ NewRun(t) \in RunRow /\ NewRun(t).task = t
        /\ NewRun(t).status = "running" /\ NewRun(t).source = Null
    BY <2>1 DEF NewRun, RunRow, RunStatus
  <2> QED
    BY <2>1, <2>2, <2>3, NullAssumption DEF Claims, Opens, Goes, Keeps
<1>3. ASSUME NEW r \in OpenRuns(LeaseRanOut(c)), ~ \E t \in DOMAIN claim : claim[t] = r
      PROVE  Swept(r)
  <2>1. r \in Run /\ runs[r] \in RunRow /\ runs'[r] = Ended(runs[r], "failed", "lease_expired")
    BY <1>3, AcquireTables, OpenRunIsRow
  <2>2. "failed" \in RunStatus /\ "lease_expired" \in SweepSource
    BY DEF RunStatus, SweepSource
  <2>3. r \in OpenRuns(Task)
    BY <2>1 DEF OpenRuns, RunRow
  <2> QED
    BY <2>1, <2>2, <2>3, EndedType DEF Swept
<1>4. RunsTurnOver
  BY <1>2, <1>3, AcquireTables DEF RunsTurnOver
<1>5. ASSUME NEW t \in Stored, t \notin DOMAIN claim, t \in LeaseRanOut(c)
      PROVE  Loses(t) /\ tasks'[t] # Null
  <2>1. t \in Task /\ tasks[t] \in TaskRow /\ tasks'[t] = Release(tasks[t], "failed")
    BY <1>5, AcquireTables, StoredRow
  <2>2. Goes(t, "failed", Null) /\ tasks'[t] # Null
    BY <2>1, ReleaseKeeps, NullAssumption DEF Goes, Keeps, Status
  <2>3. ASSUME NEW r \in OpenRuns({t}) PROVE runs'[r].status # "running"
    <3>1. r \in OpenRuns(LeaseRanOut(c)) /\ r \notin FreshRun
      BY <1>5 DEF OpenRuns, FreshRun
    <3>2. Swept(r)
      BY <1>3, <3>1, AcquireTables
    <3> QED
      BY <3>2 DEF Swept
  <2> QED
    BY <1>5, <2>2, <2>3 DEF Loses, LeaseRanOut
<1>6. ASSUME NEW t \in Stored, t \notin DOMAIN claim, t \notin LeaseRanOut(c)
      PROVE  Stays(t) /\ tasks'[t] # Null
  BY <1>6, AcquireTables, UntouchedStays, StoredRow
<1>7. Stored' = Stored
  <2>1. \A t \in Task : t \notin Stored => tasks'[t] = Null
    BY AcquireTables DEF Stored, LeaseRanOut
  <2> QED
    BY <1>2, <1>5, <1>6, <2>1 DEF Stored
<1>8. bare' = bare /\ now' = now /\ now <= now
  BY DEF AcquireDueTasks, TypeOK
<1>9. \A t \in Stored : Stays(t) \/ Expires(t) \/ Loses(t) \/ Claims(t)
  BY <1>2, <1>5, <1>6
<1> QED
  BY <1>4, <1>7, <1>8, <1>9 DEF Plain

(* A completion with a run: the row of the task and the run it ends.        *)
LEMMA CompletedColumns ==
  ASSUME NEW t \in Task, tasks[t] \in TaskRow, NEW st \in Reported,
         NEW d \in Delays, NEW th \in Reports, NEW c \in Nat
  PROVE  /\ CompletedRow(t, st, d, th, c).args = tasks[t].args
         /\ CompletedRow(t, st, d, th, c).failures =
              IF st = "failed" /\ ~tasks[t].cancel THEN tasks[t].failures + 1
              ELSE tasks[t].failures
<1> DEFINE rel == Release(tasks[t], FinalStatus(tasks[t], st))
<1>1. FinalStatus(tasks[t], st) \in Status
  BY StatusAfter
<1>2. rel \in TaskRow /\ rel.args = tasks[t].args
  BY <1>1, ReleaseKeeps
<1> DEFINE thread2 == IF th = Null THEN tasks[t].thread ELSE th
           next2   == IF FinalStatus(tasks[t], st) = "active" THEN c + DelayOf(t, d)
                      ELSE tasks[t].next
           fails2  == IF st = "failed" /\ ~tasks[t].cancel THEN tasks[t].failures + 1
                      ELSE tasks[t].failures
           count2  == tasks[t].runCount + 1
<1>3. CompletedRow(t, st, d, th, c) =
        [rel EXCEPT !.thread = thread2, !.next = next2, !.runCount = count2,
                    !.failures = fails2, !.cancel = FALSE]
  BY DEF CompletedRow
<1>4. fails2 = IF st = "failed" /\ ~tasks[t].cancel THEN tasks[t].failures + 1
               ELSE tasks[t].failures
  OBVIOUS
<1> HIDE DEF rel, thread2, next2, fails2, count2
<1>5. CompletedRow(t, st, d, th, c).args = tasks[t].args
        /\ CompletedRow(t, st, d, th, c).failures = fails2
  BY <1>2, <1>3 DEF TaskRow
<1> QED
  BY <1>4, <1>5

(* The row a completion writes.                                             *)
LEMMA CountsStep ==
  ASSUME TypeOK, NEW t \in Stored, NEW st \in Reported, NEW d \in Delays,
         NEW th \in Reports, NEW c \in Stamp, now' = now,
         tasks' = [tasks EXCEPT ![t] = CompletedRow(t, st, d, th, c)]
  PROVE  Counts(t, st)
<1> DEFINE row == CompletedRow(t, st, d, th, c)
<1>1. t \in Task /\ tasks[t] \in TaskRow /\ c \in Nat
  BY StoredRow DEF Stamp
<1>2. /\ row \in TaskRow /\ row.status = FinalStatus(tasks[t], st) /\ row.current = Null
      /\ row.expires = tasks[t].expires /\ row.runCount = tasks[t].runCount + 1
      /\ row.args = tasks[t].args
      /\ row.failures = IF st = "failed" /\ ~tasks[t].cancel THEN tasks[t].failures + 1
                        ELSE tasks[t].failures
  BY <1>1, CompletedType, CompletedColumns
<1> HIDE DEF row
<1>3. /\ Stored' = Stored
      /\ tasks'[t] = row
      /\ \A u \in Task \ {t} : tasks'[u] = tasks[u]
  BY <1>2, OneRow DEF row
<1> QED
  BY <1>2, <1>3 DEF Counts, Stored

(* Every way to complete an iteration.                                      *)
LEMMA CompleteStep ==
  ASSUME TypeOK, NEW t \in Task, NEW rid \in Run \cup {Null}, NEW st \in Reported,
         NEW d \in Delays, NEW th \in Reports, NEW src \in CompletionSource,
         NEW c \in Stamp, CompleteIteration(t, rid, st, d, th, src, c)
  PROVE  \/ UNCHANGED svars
         \/ Completes(t, EffectiveRun(t, rid), st)
         \/ rid = Null /\ CompletesBare(t, st)
<1>1. CASE CompleteAgain(t, rid)
  BY <1>1 DEF CompleteAgain
<1>2. CASE CompleteRun(t, rid, st, d, th, src, c)
  <2> DEFINE r == EffectiveRun(t, rid)
  <2>1. Counts(t, st)
    BY <1>2, CountsStep DEF CompleteRun
  <2>2. /\ r \in OpenRuns({t})
        /\ runs'[r].status # "running"
        /\ runs'[r].source = src
        /\ \A s \in Run \ {r} : runs'[s] = runs[s]
        /\ RunsMonotone
    BY <1>2, CompleteMonotone
  <2>3. runs'[r].task = t /\ runs'[r] # Null
    BY <2>2 DEF RunsMonotone, OpenRuns
  <2>4. runs'[r] \in RunRow
    <3>1. TypeOK'
      BY <1>2, EndType DEF End, CompleteIteration
    <3> QED
      BY <2>2, <2>3, <3>1 DEF TypeOK, OpenRuns, Recorded
  <2>5. bare' = bare
    BY <1>2 DEF CompleteRun
  <2> HIDE DEF r
  <2>6. Completes(t, r, st)
    BY <2>1, <2>2, <2>3, <2>4, <2>5 DEF Completes
  <2> QED
    BY <2>6 DEF r
<1>3. CASE rid = Null /\ CompleteBare(t, st, d, th, c)
  BY <1>3, CountsStep DEF CompleteBare, CompletesBare
<1> QED
  BY <1>1, <1>2, <1>3 DEF CompleteIteration

(* A failed preflight fails the task's current run, if that is open, and    *)
(* releases the task.                                                       *)
LEMMA AbortStep ==
  ASSUME TypeOK, NEW t \in Task, AbortCurrentRun(t, "paused")
  PROVE  /\ t \in Stored
         /\ Stored' = Stored
         /\ UNCHANGED <<now, bare>>
         /\ \A u \in Task \ {t} : tasks'[u] = tasks[u]
         /\ Goes(t, "paused", Null)
         /\ \A r \in Run : \/ runs'[r] = runs[r]
                           \/ Swept(r) /\ r = tasks[t].current
         /\ \A r \in OpenRuns(Task) : r = tasks[t].current => Swept(r)
<1>1. t \in Stored /\ tasks[t] \in TaskRow /\ "paused" \in Status
  BY StoredRow DEF AbortCurrentRun, Status
<1>2. tasks' = [tasks EXCEPT ![t] = Release(tasks[t], "paused")]
  BY DEF AbortCurrentRun
<1>3. /\ Stored' = Stored /\ tasks'[t] = Release(tasks[t], "paused")
      /\ \A u \in Task \ {t} : tasks'[u] = tasks[u]
  BY <1>1, <1>2, OneRow, ReleaseKeeps
<1>4. Goes(t, "paused", Null)
  BY <1>1, <1>3, ReleaseKeeps DEF Goes, Keeps
<1>5. ASSUME NEW r \in OpenRuns(Task), r = tasks[t].current PROVE Swept(r)
  <2>1. r \in Run /\ r \in Recorded /\ runs[r] \in RunRow /\ runs[r].status = "running"
    BY OpenRunIsRow DEF OpenRuns
  <2>2. runs'[r] = Ended(runs[r], "failed", "scheduler_preflight")
    BY <1>5, <2>1 DEF AbortCurrentRun
  <2>3. "failed" \in RunStatus /\ "scheduler_preflight" \in SweepSource
    BY DEF RunStatus, SweepSource
  <2> QED
    BY <2>1, <2>2, <2>3, EndedType DEF Swept
<1>6. ASSUME NEW r \in Run, ~(r \in OpenRuns(Task) /\ r = tasks[t].current)
      PROVE  runs'[r] = runs[r]
  <2>1. r \in Recorded /\ runs[r].status = "running" => r \in OpenRuns(Task)
    BY DEF OpenRuns, TypeOK, Recorded, RunRow
  <2> QED
    BY <1>6, <2>1 DEF AbortCurrentRun
<1> QED
  BY <1>1, <1>3, <1>4, <1>5, <1>6 DEF AbortCurrentRun

(* A step that ends no iteration.                                           *)
LEMMA QuietStep ==
  ASSUME TypeOK, SweepsPast, [Quiet]_svars
  PROVE  Plain
<1>1. CASE UNCHANGED svars
  BY <1>1, UntouchedStays DEF svars, Plain, RunsTurnOver, Stored, TypeOK
<1>2. CASE Tick
  BY <1>2, TickStep
<1>3. CASE OpenStore
  BY <1>3, OpenStep
<1>4. CASE \E t \in Task, th \in Thread : ReplaceTaskThread(t, th)
  BY <1>4, ReplaceStep
<1>5. CASE \E p \in Proc : Sweeps(p)
  BY <1>5, SweepsStep
<1>6. CASE Acquire
  BY <1>6, AcquireStep DEF Acquire
<1> QED
  BY <1>1, <1>2, <1>3, <1>4, <1>5, <1>6 DEF Quiet

(* Such a step writes runs off to an expiry or a lost lease only.           *)
LEMMA QuietSource ==
  ASSUME TypeOK, [Quiet]_svars, NEW r \in OpenRuns(Task),
         runs[r].source # "scheduler_preflight"
  PROVE  runs'[r].source # "scheduler_preflight"
<1>0. r \in Run /\ r \in Recorded /\ runs[r] \in RunRow
  BY OpenRunIsRow DEF OpenRuns
<1>1. ASSUME NEW st, NEW src PROVE Ended(runs[r], st, src).source = src
  BY <1>0 DEF Ended, RunRow
<1>2. CASE UNCHANGED runs
  BY <1>2
<1>3. ASSUME NEW p \in Proc, NEW c \in Stamp, ExpireRuns(p, c)
      PROVE  runs'[r].source # "scheduler_preflight"
  <2>1. runs'[r] = runs[r] \/ runs'[r] = Ended(runs[r], "failed", "expiry")
    BY <1>0, <1>3 DEF ExpireRuns, FailRunsOf
  <2> QED
    BY <1>1, <2>1
<1>4. ASSUME NEW c \in Stamp, NEW limit, NEW th, NEW claim, AcquireDueTasks(claim, c, limit, th)
      PROVE  runs'[r].source # "scheduler_preflight"
  <2>1. \/ \E t : runs'[r] = NewRun(t)
        \/ runs'[r] = Ended(runs[r], "failed", "lease_expired")
        \/ runs'[r] = runs[r]
    BY <1>0, <1>4 DEF AcquireDueTasks
  <2>2. \A t : NewRun(t).source # "scheduler_preflight"
    BY ConstantsAssumption DEF NewRun, SweepSource
  <2> QED
    BY <1>1, <2>1, <2>2
<1> QED
  BY <1>2, <1>3, <1>4
     DEF Quiet, Tick, OpenStore, ReplaceTaskThread, Sweeps, ExpireTasks, AbandonSweep, Acquire,
         svars

(* A completion that names a run ends no other run.                         *)
LEMMA NamedCompletion ==
  ASSUME TypeOK, NEW t, NEW rid \in Run, NEW st, NEW d, NEW th, NEW src, NEW c,
         CompleteIteration(t, rid, st, d, th, src, c), NEW r \in Run \ {rid}
  PROVE  runs'[r] = runs[r]
<1>1. rid # Null /\ EffectiveRun(t, rid) = rid
  BY ConstantsAssumption DEF EffectiveRun
<1> QED
  BY <1>1 DEF CompleteIteration, CompleteAgain, CompleteRun, svars, TypeOK

(* A step of the processes that serve a task.                               *)
LEMMA ServedStep ==
  ASSUME TypeOK, SweepsPast, [Served]_svars
  PROVE  \/ Plain
         \/ \E t \in Task, r \in Run, st \in Reported : Completes(t, r, st)
         \/ \E t \in Task, st \in Reported : CompletesBare(t, st)
<1>1. CASE [Quiet]_svars
  BY <1>1, QuietStep
<1>2. ASSUME NEW t \in Task, NEW rid \in Run \cup {Null}, NEW st \in Reported,
             NEW d \in Delays, NEW th \in Reports, NEW src \in CompletionSource,
             NEW c \in Stamp, CompleteIteration(t, rid, st, d, th, src, c)
      PROVE  \/ UNCHANGED svars
             \/ \E u \in Task, r \in Run, s \in Reported : Completes(u, r, s)
             \/ \E u \in Task, s \in Reported : CompletesBare(u, s)
  <2>1. Completes(t, EffectiveRun(t, rid), st) => EffectiveRun(t, rid) \in Run
    BY DEF Completes, OpenRuns, Recorded
  <2> QED
    BY <1>2, <2>1, CompleteStep
<1>3. UNCHANGED svars => [Quiet]_svars
  OBVIOUS
<1> QED
  BY <1>1, <1>2, <1>3 DEF Served

\* A step of the store that counts no iteration.
Uncounted ==
  /\ bare' = bare
  /\ RunsTurnOver
  /\ Stored \subseteq Stored'
  /\ \A t \in Stored : tasks'[t].runCount = tasks[t].runCount
  /\ \A t \in Stored' \ Stored : tasks'[t].runCount = 0

(* Every step of the store counts one iteration of one task, or none.       *)
LEMMA NextStep ==
  ASSUME TypeOK, SweepsPast, [Next]_svars
  PROVE  \/ Uncounted
         \/ \E t \in Task, r \in Run, st \in Reported : Completes(t, r, st)
         \/ \E t \in Task, st \in Reported : CompletesBare(t, st)
<1>1. CASE [Served]_svars
  <2>1. Plain => Uncounted
    BY DEF Plain, Uncounted, Stays, Expires, Loses, Claims, Goes, Keeps
  <2> QED
    BY <1>1, <2>1, ServedStep
<1>2. CASE \E t \in Task : AbortCurrentRun(t, "paused")
  <2>1. PICK t \in Task : AbortCurrentRun(t, "paused")
    BY <1>2
  <2>2. RunsTurnOver
    BY <2>1, AbortStep DEF RunsTurnOver
  <2> QED
    BY <2>1, <2>2, AbortStep DEF Uncounted, Goes, Keeps, Stored
<1>3. CASE \E t \in Task : Edit(t)
  <2>1. PICK t \in Task : Edit(t)
    BY <1>3
  <2>2. RunsTurnOver /\ bare' = bare
    BY <2>1 DEF Edit, CreateTask, UpdateStatus, RequestCancel, BindTaskThread,
                ReplaceTaskThread, RunsTurnOver
  <2>3. CASE \E args \in CreateArgs, th \in Thread \cup {Current}, c \in Stamp :
               CreateTask(t, args, th, c)
    BY <2>2, <2>3, CreateStep DEF Uncounted, Stored
  <2>4. CASE \E st \in Settable : UpdateStatus(t, st)
    BY <2>2, <2>4, UpdateStep DEF Uncounted, Goes, Keeps, Stored
  <2>5. CASE RequestCancel(t)
    BY <2>2, <2>5, CancelStep DEF Uncounted, Stays, Goes, Keeps, Stored
  <2>6. CASE \E th \in Thread, resume \in BOOLEAN : BindTaskThread(t, th, resume)
    BY <2>2, <2>6, BindStep DEF Uncounted, Stays, Goes, Keeps, Stored
  <2>7. CASE \E th \in Thread : ReplaceTaskThread(t, th)
    BY <1>1, <2>7 DEF Served, Quiet
  <2> QED
    BY <2>1, <2>3, <2>4, <2>5, <2>6, <2>7 DEF Edit
<1> QED
  BY <1>1, <1>2, <1>3 DEF Next, Served, Quiet, End

-----------------------------------------------------------------------------
(* Iterations are counted exactly *)

Counted(t) == {r \in Recorded : runs[r].task = t /\ runs[r].source \in CompletionSource}

\* Every run belongs to a stored task; an open one has nobody's signature yet.
RunsFiled ==
  \A r \in Recorded :
    /\ runs[r].task \in Stored
    /\ runs[r].status = "running" => runs[r].source = Null

CountsOK ==
  \A t \in Task :
    /\ IsFiniteSet(Counted(t))
    /\ t \in Stored => tasks[t].runCount = bare[t] + Cardinality(Counted(t))
    /\ t \notin Stored => bare[t] = 0

CountInv == StoreInv /\ RunsFiled /\ CountsOK

(* A step that counts nothing leaves the counted runs as they were.         *)
LEMMA CountedKept ==
  ASSUME RunsFiled, RunsTurnOver, NEW t \in Task
  PROVE  Counted(t)' = Counted(t)
<1>1. \A r \in Run : r \in Recorded /\ runs[r].status = "running" => runs[r].source = Null
  BY DEF RunsFiled
<1> QED
  BY <1>1, ConstantsAssumption
     DEF Counted, RunsTurnOver, Opens, Swept, FreshRun, OpenRuns, Recorded

(* A completion counts its run, which was not counted before.               *)
LEMMA CountedGrows ==
  ASSUME RunsFiled, NEW t \in Task, NEW r \in Run, NEW st, Completes(t, r, st)
  PROVE  /\ r \notin Counted(t)
         /\ Counted(t)' = Counted(t) \cup {r}
         /\ \A u \in Task \ {t} : Counted(u)' = Counted(u)
<1>1. /\ r \in Recorded /\ runs[r].task = t /\ runs[r].source = Null
      /\ r \in Recorded' /\ runs'[r].task = t /\ runs'[r].source \in CompletionSource
      /\ \A s \in Run \ {r} : runs'[s] = runs[s]
  BY NullAssumption DEF Completes, OpenRuns, RunsFiled, Recorded
<1> QED
  BY <1>1, ConstantsAssumption DEF Counted, Recorded

(* Every step keeps runs filed under stored tasks, and open ones unsigned.  *)
LEMMA FiledStep ==
  ASSUME TypeOK, TypeOK', SweepsPast, RunsFiled, [Next]_svars
  PROVE  RunsFiled'
<1>1. CASE Uncounted
  BY <1>1, NullAssumption
     DEF Uncounted, RunsTurnOver, Opens, Swept, RunsFiled, FreshRun, OpenRuns, Recorded
<1>2. ASSUME NEW t \in Task, NEW r \in Run, NEW st \in Reported, Completes(t, r, st)
      PROVE  RunsFiled'
  BY <1>2 DEF Completes, Counts, RunsFiled, Recorded
<1>3. ASSUME NEW t \in Task, NEW st \in Reported, CompletesBare(t, st)
      PROVE  RunsFiled'
  BY <1>3 DEF CompletesBare, Counts, RunsFiled, Recorded
<1> QED
  BY <1>1, <1>2, <1>3, NextStep

(* Every step keeps the counts exact.                                       *)
LEMMA CountsStepOK ==
  ASSUME TypeOK, TypeOK', SweepsPast, RunsFiled, CountsOK, [Next]_svars
  PROVE  CountsOK'
<1> SUFFICES ASSUME NEW t \in Task
             PROVE  /\ IsFiniteSet(Counted(t)')
                    /\ t \in Stored' => tasks'[t].runCount = bare'[t] + Cardinality(Counted(t)')
                    /\ t \notin Stored' => bare'[t] = 0
  BY DEF CountsOK
<1>0. /\ IsFiniteSet(Counted(t))
      /\ Cardinality(Counted(t)) \in Nat
      /\ bare[t] \in Nat
      /\ t \in Stored => tasks[t].runCount = bare[t] + Cardinality(Counted(t))
      /\ t \notin Stored => bare[t] = 0
  BY FS_CardinalityType DEF CountsOK, TypeOK
<1>1. CASE Uncounted
  <2>1. Counted(t)' = Counted(t) /\ bare'[t] = bare[t]
    BY <1>1, CountedKept DEF Uncounted
  <2>2. CASE t \in Stored
    BY <1>0, <1>1, <2>1, <2>2 DEF Uncounted
  <2>3. CASE t \notin Stored
    <3>1. Counted(t) = {}
      BY <2>3 DEF Counted, RunsFiled
    <3>2. Cardinality(Counted(t)) = 0
      BY <3>1, FS_EmptySet
    <3> QED
      BY <1>0, <1>1, <2>1, <2>3, <3>2 DEF Uncounted
  <2> QED
    BY <2>2, <2>3
<1>2. ASSUME NEW u \in Task, NEW r \in Run, NEW st \in Reported, Completes(u, r, st)
      PROVE  /\ IsFiniteSet(Counted(t)')
             /\ t \in Stored' => tasks'[t].runCount = bare'[t] + Cardinality(Counted(t)')
             /\ t \notin Stored' => bare'[t] = 0
  <2>1. /\ Stored' = Stored /\ u \in Stored /\ bare' = bare
        /\ \A v \in Stored \ {u} : tasks'[v] = tasks[v]
        /\ tasks'[u].runCount = tasks[u].runCount + 1
    BY <1>2 DEF Completes, Counts
  <2>2. CASE t = u
    <3>1. r \notin Counted(t) /\ Counted(t)' = Counted(t) \cup {r}
      BY <1>2, <2>2, CountedGrows
    <3>2. /\ IsFiniteSet(Counted(t)')
          /\ Cardinality(Counted(t)') = Cardinality(Counted(t)) + 1
      BY <1>0, <3>1, FS_AddElement
    <3> QED
      BY <1>0, <2>1, <2>2, <3>2
  <2>3. CASE t # u
    BY <1>0, <1>2, <2>1, <2>3, CountedGrows
  <2> QED
    BY <2>2, <2>3
<1>3. ASSUME NEW u \in Task, NEW st \in Reported, CompletesBare(u, st)
      PROVE  /\ IsFiniteSet(Counted(t)')
             /\ t \in Stored' => tasks'[t].runCount = bare'[t] + Cardinality(Counted(t)')
             /\ t \notin Stored' => bare'[t] = 0
  <2>1. /\ Stored' = Stored /\ u \in Stored /\ bare' = [bare EXCEPT ![u] = @ + 1]
        /\ \A v \in Stored \ {u} : tasks'[v] = tasks[v]
        /\ tasks'[u].runCount = tasks[u].runCount + 1
        /\ runs' = runs
    BY <1>3 DEF CompletesBare, Counts
  <2>2. Counted(t)' = Counted(t)
    BY <2>1 DEF Counted, Recorded
  <2>3. bare'[t] = IF t = u THEN bare[t] + 1 ELSE bare[t]
    BY <2>1 DEF TypeOK
  <2> QED
    BY <1>0, <2>1, <2>2, <2>3
<1> QED
  BY <1>1, <1>2, <1>3, NextStep

(* Every step of the store keeps the counting invariant.                    *)
LEMMA CountInvStep == CountInv /\ [Next]_svars => CountInv'
<1> SUFFICES ASSUME CountInv, [Next]_svars PROVE CountInv'
  OBVIOUS
<1>1. StoreInv'
  BY TypeStep, RowsStep, SweepsPastStep, OwnershipStep DEF CountInv, StoreInv
<1>2. TypeOK /\ TypeOK' /\ SweepsPast /\ RunsFiled /\ CountsOK
  BY <1>1 DEF CountInv, StoreInv
<1> QED
  BY <1>1, <1>2, FiledStep, CountsStepOK DEF CountInv

(* The invariant holds of the empty database.                               *)
LEMMA CountInit == Init => CountInv
<1> SUFFICES ASSUME Init PROVE CountInv
  OBVIOUS
<1>1. StoreInv
  BY DEF Init, StoreInv, TypeOK, RowsOK, SweepsPast, Ownership, CurrentRunOwned,
         OrphansExplained, Stored, Recorded, OpenRuns
<1>2. Recorded = {} /\ Stored = {}
  BY DEF Init, Recorded, Stored
<1>3. \A t \in Task : Counted(t) = {} /\ bare[t] = 0
  BY <1>2 DEF Init, Counted
<1> QED
  BY <1>1, <1>2, <1>3, FS_EmptySet DEF CountInv, RunsFiled, CountsOK

(* The counts, and what they rest on, in every reachable state.             *)
THEOREM CountInvariant == Spec => []CountInv
BY CountInit, CountInvStep, PTL DEF Spec

(* run_count is exactly the number of runs a caller completed plus the      *)
(* completions that found no run: no race of reports, fallbacks, sweeps and *)
(* aborts counts an iteration twice or loses one.                           *)
THEOREM RunsCounted == Spec => []RunCountExact
<1>1. CountInv => RunCountExact
  BY DEF CountInv, CountsOK, Counted, RunCountExact, Stored
<1> QED
  BY <1>1, CountInvariant, PTL

-----------------------------------------------------------------------------
(* The store keeps the ledger of runs *)

OpenPairs == {<<runs[r].task, r>> : r \in OpenRuns(Task)}

RunCounts == [t \in Task |-> IF t \in Stored THEN tasks[t].runCount ELSE 0]

(* A pair is open exactly when its run is open and belongs to its task.     *)
LEMMA PairOpen ==
  ASSUME NEW t, NEW r
  PROVE  /\ <<t, r>> \in OpenPairs <=> r \in OpenRuns(Task) /\ runs[r].task = t
         /\ \A a \in OpenPairs : a = <<a[1], a[2]>>
BY DEF OpenPairs

(* A step that counts nothing is a turnover of the ledger.                  *)
LEMMA LedgerTurnover ==
  ASSUME TypeOK, TypeOK', Uncounted
  PROVE  Ledger!Turnover
<1>1. RunCounts' = RunCounts
  BY DEF RunCounts, Uncounted
<1>2. Recorded \subseteq Recorded'
  BY NullAssumption DEF Uncounted, RunsTurnOver, Opens, Swept, OpenRuns, FreshRun, Recorded
<1>3. OpenPairs' \subseteq Task \X Recorded'
  BY DEF OpenPairs, OpenRuns, TypeOK, Recorded, RunRow
<1>4. ASSUME NEW a \in OpenPairs' \ OpenPairs
      PROVE  /\ a = <<a[1], a[2]>>
             /\ a[2] \in Run
             /\ Opens(a[2])
             /\ runs'[a[2]].task = a[1]
  <2>1. PICK r \in OpenRuns(Task)' : a = <<runs'[r].task, r>>
    BY DEF OpenPairs
  <2>2. r \in Run /\ r \in Recorded' /\ runs'[r].status = "running" /\ runs'[r].task \in Task
    BY DEF OpenRuns, Recorded
  <2>3. runs'[r] # runs[r]
    <3> SUFFICES ASSUME runs'[r] = runs[r] PROVE FALSE
      OBVIOUS
    <3>1. r \in OpenRuns(Task)
      BY <2>2 DEF OpenRuns, Recorded
    <3> QED
      BY <2>1, <3>1 DEF OpenPairs
  <2>4. ~Swept(r)
    BY <2>2 DEF Swept
  <2> QED
    BY <2>1, <2>2, <2>3, <2>4 DEF Uncounted, RunsTurnOver
<1>5. ASSUME NEW a \in OpenPairs' \ OpenPairs
      PROVE  /\ a[2] \notin Recorded
             /\ \A b \in OpenPairs' \ OpenPairs : (a[1] = b[1]) <=> (a[2] = b[2])
  BY <1>4 DEF Opens, FreshRun
<1>6. ASSUME NEW r \in Recorded' \ Recorded
      PROVE  \E t \in Task : <<t, r>> \in OpenPairs'
  <2>1. r \in Run /\ runs'[r] # Null /\ runs[r] = Null
    BY DEF Recorded
  <2>2. Opens(r)
    BY <2>1 DEF Uncounted, RunsTurnOver, Swept, OpenRuns, Recorded
  <2>3. runs'[r].task \in Task /\ r \in OpenRuns(Task)'
    BY <2>2 DEF Opens, OpenRuns, RunRow
  <2> QED
    BY <2>3 DEF OpenPairs
<1> QED
  BY <1>1, <1>2, <1>3, <1>5, <1>6 DEF Ledger!Turnover, OpenPairs, RunCounts

(* A completion is a count of the ledger that ends its run.                 *)
LEMMA LedgerCount ==
  ASSUME TypeOK, NEW t \in Task, NEW r \in Run, NEW st, Completes(t, r, st)
  PROVE  Ledger!Count(t)
<1>1. /\ Stored' = Stored /\ t \in Stored
      /\ \A u \in Stored \ {t} : tasks'[u] = tasks[u]
      /\ tasks'[t].runCount = tasks[t].runCount + 1
      /\ r \in OpenRuns({t}) /\ runs'[r] \in RunRow /\ runs'[r].status # "running"
      /\ \A s \in Run \ {r} : runs'[s] = runs[s]
  BY DEF Completes, Counts
<1>2. RunCounts' = [RunCounts EXCEPT ![t] = @ + 1]
  BY <1>1 DEF RunCounts
<1>3. r \in Recorded /\ runs[r].task = t /\ r \in OpenRuns(Task)
  BY <1>1 DEF OpenRuns
<1>4. Recorded' = Recorded
  BY <1>1, <1>3, NullAssumption DEF Recorded
<1>5. OpenRuns(Task)' = OpenRuns(Task) \ {r}
  BY <1>1, <1>3, <1>4 DEF OpenRuns, Recorded
<1>6. OpenPairs' = OpenPairs \ {<<t, r>>}
  <2>1. \A s \in OpenRuns(Task) \ {r} : runs'[s] = runs[s]
    BY <1>1 DEF OpenRuns, Recorded
  <2> QED
    BY <1>3, <1>5, <2>1 DEF OpenPairs
<1>7. <<t, r>> \in OpenPairs
  BY <1>3, PairOpen
<1> QED
  BY <1>2, <1>4, <1>6, <1>7 DEF Ledger!Count, OpenPairs, RunCounts

(* So is a completion that names no run, which ends none.                   *)
LEMMA LedgerCountBare ==
  ASSUME TypeOK, NEW t \in Task, NEW st, CompletesBare(t, st)
  PROVE  Ledger!Count(t)
<1>1. /\ Stored' = Stored /\ t \in Stored
      /\ \A u \in Stored \ {t} : tasks'[u] = tasks[u]
      /\ tasks'[t].runCount = tasks[t].runCount + 1
      /\ runs' = runs
  BY DEF CompletesBare, Counts
<1>2. RunCounts' = [RunCounts EXCEPT ![t] = @ + 1]
  BY <1>1 DEF RunCounts
<1>3. Recorded' = Recorded /\ OpenPairs' = OpenPairs
  BY <1>1 DEF Recorded, OpenPairs, OpenRuns
<1> QED
  BY <1>2, <1>3 DEF Ledger!Count, OpenPairs, RunCounts

(* The tables implement the ledger: run ids are never used twice, an open    *)
(* run ends once, each acquired task gets one run of its own, and a count    *)
(* moves by one exactly with a completion.                                   *)
THEOREM StoreImplementsLedger == Spec => LedgerSpec
<1>1. Init => Ledger!LedgerInit
  BY DEF Init, Ledger!LedgerInit, OpenRuns, Recorded, Stored
<1>2. StoreInv /\ StoreInv' /\ [Next]_svars => [Ledger!LedgerNext]_(Ledger!lvars)
  <2> SUFFICES ASSUME StoreInv, StoreInv', [Next]_svars PROVE Ledger!LedgerNext
    OBVIOUS
  <2>1. TypeOK /\ TypeOK' /\ SweepsPast
    BY DEF StoreInv
  <2> QED
    BY <2>1, NextStep, LedgerTurnover, LedgerCount, LedgerCountBare DEF Ledger!LedgerNext
<1> QED
  BY <1>1, <1>2, StoreInvariant, PTL DEF Spec, LedgerSpec, Ledger!LedgerSpec

-----------------------------------------------------------------------------
(* Retired tasks *)

(* A task that is not live becomes due or running only when somebody sets   *)
(* its status or an iteration of it is completed.                           *)
THEOREM RevivedOnPurpose == Spec => ReviveOnlyByResumeOrCompletion
<1> DEFINE Revives ==
      \A t \in Stored :
        tasks[t].status \notin Live /\ tasks'[t].status \in {"active", "running"} =>
          \/ UpdateStatus(t, "active")
          \/ bare'[t] > bare[t]
          \/ \E r \in OpenRuns({t}) : runs'[r].source \in CompletionSource
<1>1. StoreInv /\ [Next]_svars => Revives
  <2> SUFFICES ASSUME TypeOK, SweepsPast, [Next]_svars, NEW t \in Stored,
                      tasks[t].status \notin Live, tasks'[t].status \in {"active", "running"}
               PROVE  \/ UpdateStatus(t, "active")
                      \/ bare'[t] > bare[t]
                      \/ \E r \in OpenRuns({t}) : runs'[r].source \in CompletionSource
    BY DEF StoreInv
  <2>0. t \in Task /\ tasks[t].status \notin {"active", "running", "paused"}
    BY DEF Stored, Live
  <2>1. tasks'[t].status # tasks[t].status
    BY <2>0
  <2>2. CASE [Served]_svars
    <3>1. CASE Plain
      BY <2>0, <2>1, <3>1 DEF Plain, Stays, Expires, Loses, Claims, Goes
    <3>2. ASSUME NEW u \in Task, NEW r \in Run, NEW st \in Reported, Completes(u, r, st)
          PROVE  \E q \in OpenRuns({t}) : runs'[q].source \in CompletionSource
      BY <2>1, <3>2 DEF Completes, Counts
    <3>3. ASSUME NEW u \in Task, NEW st \in Reported, CompletesBare(u, st)
          PROVE  bare'[t] > bare[t]
      <4>1. t = u /\ bare' = [bare EXCEPT ![u] = @ + 1]
        BY <2>1, <3>3 DEF CompletesBare, Counts
      <4> QED
        BY <2>0, <4>1 DEF TypeOK
    <3> QED
      BY <2>2, <3>1, <3>2, <3>3, ServedStep
  <2>3. ASSUME NEW u \in Task, AbortCurrentRun(u, "paused") PROVE FALSE
    BY <2>0, <2>1, <2>3, AbortStep DEF Goes
  <2>4. ASSUME NEW u \in Task, Edit(u), ~[Served]_svars PROVE UpdateStatus(t, "active")
    <3>1. CASE \E args \in CreateArgs, th \in Thread \cup {Current}, c \in Stamp :
                 CreateTask(u, args, th, c)
      BY <2>0, <2>1, <3>1, CreateStep
    <3>2. ASSUME NEW st \in Settable, UpdateStatus(u, st) PROVE UpdateStatus(t, "active")
      <4>1. t = u /\ tasks'[t].status = st
        BY <2>0, <2>1, <3>2, UpdateStep DEF Goes
      <4> QED
        BY <3>2, <4>1 DEF Settable
    <3>3. CASE RequestCancel(u)
      BY <2>0, <2>1, <3>3, CancelStep DEF Stays, Goes
    <3>4. CASE \E th \in Thread, resume \in BOOLEAN : BindTaskThread(u, th, resume)
      BY <2>0, <2>1, <3>4, BindStep DEF Stays, Goes
    <3>5. CASE \E th \in Thread : ReplaceTaskThread(u, th)
      BY <2>4, <3>5 DEF Served, Quiet
    <3> QED
      BY <2>4, <3>1, <3>2, <3>3, <3>4, <3>5 DEF Edit
  <2> QED
    BY <2>2, <2>3, <2>4 DEF Next, Served, Quiet, End
<1> QED
  BY <1>1, StoreInvariant, PTL DEF Spec, ReviveOnlyByResumeOrCompletion, Revives

=============================================================================
