--------------------------- MODULE LoopTurnsProofs ---------------------------
(* Proofs about the turns of a task in LoopSystem: no open run is forgotten, *)
(* a task has one open turn and no more turns than max_runs and the resumes  *)
(* of its user allow, repeated failures pause it, and a retired task stays   *)
(* retired.                                                                  *)
EXTENDS LoopSystemProofs

-----------------------------------------------------------------------------
(* What a step of the system does to one task and to one run *)

Cancels(t) == tasks[t].status # "running" /\ Goes(t, "cancelled", Null)

Resumes(t) ==
  /\ tasks[t].status = "paused"
  /\ Goes(t, "active", tasks[t].current)
  /\ CountsResume(t)

Updates(t) ==
  /\ t \in updated'
  /\ \E st \in Settable : Goes(t, st, Null)
  /\ CountsResume(t)

Aborts(t) ==
  /\ \E d \in Daemon : PreflightBlocks(d) /\ Job(d).task = t
  /\ Goes(t, "paused", Null)
  /\ \A r \in OpenRuns(Task) : r = tasks[t].current => Swept(r)

(* What may become of a stored task.                                        *)
LEMMA RowStep ==
  ASSUME TypeOK, Work, SweepsPast, [SystemNext]_vars, NEW t \in Stored
  PROVE  \/ Stays(t) \/ Expires(t) \/ Loses(t) \/ Claims(t)
         \/ Cancels(t) \/ Resumes(t) \/ Updates(t) \/ Aborts(t)
         \/ \E r \in Run, st \in Reported : Completes(t, r, st)
         \/ \E st \in Reported : CompletesBare(t, st)
<1>0. t \in Task
  BY DEF Stored
<1>1. CASE [Served]_svars
  <2>1. ASSUME NEW u \in Task, NEW r \in Run, NEW st \in Reported, Completes(u, r, st)
        PROVE  Stays(t) \/ Completes(t, r, st)
    BY <2>1, UntouchedStays DEF Completes, Counts
  <2>2. ASSUME NEW u \in Task, NEW st \in Reported, CompletesBare(u, st)
        PROVE  Stays(t) \/ CompletesBare(t, st)
    BY <2>2, UntouchedStays DEF CompletesBare, Counts
  <2> QED
    BY <1>1, <2>1, <2>2, ServedStep DEF Plain
<1>2. ASSUME NEW d \in Daemon, PreflightBlocks(d)
      PROVE  Stays(t) \/ Aborts(t)
  <2>1. Job(d).task \in Task /\ AbortCurrentRun(Job(d).task, "paused")
    BY <1>2, PreflightIsStore
  <2>2. CASE t = Job(d).task
    BY <1>2, <2>1, <2>2, AbortStep DEF Aborts
  <2>3. CASE t # Job(d).task
    BY <1>0, <2>1, <2>3, AbortStep, UntouchedStays
  <2> QED
    BY <2>2, <2>3
<1>3. ASSUME NEW u \in Task, UserStep(u)
      PROVE  Stays(t) \/ Cancels(t) \/ Resumes(t) \/ Updates(t)
  <2> USE SystemAssumption
  <2>1. CASE UserCreates(u)
    BY <1>0, <2>1, CreateStep, UntouchedStays DEF UserCreates
  <2>2. CASE UserUpdates(u)
    <3>1. PICK st \in Settable : UpdateStatus(u, st)
      BY <2>2 DEF UserUpdates
    <3>2. u \in updated' /\ CountsResume(u)
      BY <2>2 DEF UserUpdates
    <3> QED
      BY <1>0, <3>1, <3>2, UpdateStep, UntouchedStays DEF Updates
  <2>3. CASE UserCancels(u)
    BY <1>0, <2>3, CancelStep, UntouchedStays DEF UserCancels, Cancels
  <2>4. CASE UserBinds(u)
    <3>1. PICK th \in Thread, resume \in BOOLEAN : BindTaskThread(u, th, resume)
      BY <2>4 DEF UserBinds
    <3>2. CountsResume(u)
      BY <2>4 DEF UserBinds
    <3> QED
      BY <1>0, <3>1, <3>2, BindStep, UntouchedStays DEF Resumes
  <2> QED
    BY <1>3, <2>1, <2>2, <2>3, <2>4 DEF UserStep
<1> QED
  BY <1>1, <1>2, <1>3, SystemStep

(* What may become of a run.                                                *)
LEMMA RunStep ==
  ASSUME TypeOK, Work, SweepsPast, [SystemNext]_vars, NEW r \in Run
  PROVE  \/ runs'[r] = runs[r] \/ Opens(r) \/ Swept(r)
         \/ \E t \in Task, st \in Reported : Completes(t, r, st)
<1>1. [Next]_svars
  BY StoreStep
<1>2. ASSUME NEW t \in Task, NEW q \in Run, NEW st \in Reported, Completes(t, q, st)
      PROVE  runs'[r] = runs[r] \/ Completes(t, r, st)
  BY <1>2 DEF Completes
<1> QED
  BY <1>1, <1>2, NextStep DEF Uncounted, RunsTurnOver, CompletesBare

(* What never decreases, and what a new task looks like.                    *)
LEMMA SystemMonotone ==
  ASSUME TypeOK, Work, SweepsPast, Places, [SystemNext]_vars
  PROVE  /\ Stored \subseteq Stored'
         /\ now <= now'
         /\ updated \subseteq updated'
         /\ \A t \in Task : bare[t] <= bare'[t] /\ resumes[t] <= resumes'[t]
         /\ \A t \in Stored' \ Stored :
              /\ tasks'[t].status = "active" /\ tasks'[t].current = Null
              /\ tasks'[t].runCount = 0 /\ tasks'[t].failures = 0
              /\ tasks'[t] \in TaskRow
              /\ runs' = runs
<1> USE SystemAssumption
<1>0. /\ now \in Nat /\ now <= now
      /\ \A t \in Task : /\ bare[t] \in Nat /\ bare[t] <= bare[t]
                         /\ resumes[t] \in Nat /\ resumes[t] <= resumes[t]
  BY DEF TypeOK, Places
<1>1. CASE [Served]_svars /\ UNCHANGED <<updated, resumes>>
  <2>1. CASE Plain
    BY <1>0, <1>1, <2>1 DEF Plain
  <2>2. ASSUME NEW u \in Task, NEW r \in Run, NEW st \in Reported, Completes(u, r, st)
        PROVE  Stored = Stored' /\ now' = now /\ bare' = bare
    BY <2>2 DEF Completes, Counts
  <2>3. ASSUME NEW u \in Task, NEW st \in Reported, CompletesBare(u, st)
        PROVE  Stored = Stored' /\ now' = now /\ \A t \in Task : bare[t] <= bare'[t]
    BY <1>0, <2>3 DEF CompletesBare, Counts, TypeOK
  <2> QED
    BY <1>0, <1>1, <2>1, <2>2, <2>3, ServedStep
<1>2. ASSUME NEW d \in Daemon, PreflightBlocks(d)
      PROVE  Stored = Stored' /\ UNCHANGED <<now, bare, updated, resumes>>
  BY <1>2, PreflightIsStore, AbortStep DEF PreflightBlocks
<1>3. ASSUME NEW u \in Task, UserCreates(u)
      PROVE  /\ Stored' = Stored \cup {u} /\ UNCHANGED <<now, bare, updated, resumes, runs>>
             /\ tasks'[u].status = "active" /\ tasks'[u].current = Null
             /\ tasks'[u].runCount = 0 /\ tasks'[u].failures = 0 /\ tasks'[u] \in TaskRow
  BY <1>3, CreateStep DEF UserCreates, pvars
<1>4. ASSUME NEW u \in Task, UserUpdates(u) \/ UserCancels(u) \/ UserBinds(u)
      PROVE  /\ Stored' = Stored /\ UNCHANGED <<now, bare>>
             /\ updated \subseteq updated'
             /\ \A t \in Task : resumes[t] <= resumes'[t]
  <2>1. /\ Stored' = Stored /\ UNCHANGED <<now, bare>>
        /\ updated \subseteq updated'
    BY <1>4, UpdateStep, CancelStep, BindStep DEF UserUpdates, UserCancels, UserBinds, pvars
  <2>2. CountsResume(u) => \A t \in Task : resumes[t] <= resumes'[t]
    <3> SUFFICES ASSUME CountsResume(u), NEW t \in Task PROVE resumes[t] <= resumes'[t]
      OBVIOUS
    <3>1. resumes'[t] = resumes[t] \/ resumes'[t] = resumes[t] + 1
      BY DEF CountsResume, Places
    <3> QED
      BY <1>0, <3>1
  <2>3. UserCancels(u) => resumes' = resumes
    BY DEF UserCancels, pvars
  <2> QED
    BY <1>0, <1>4, <2>1, <2>2, <2>3 DEF UserUpdates, UserBinds
<1> QED
  BY <1>0, <1>1, <1>2, <1>3, <1>4, SystemStep DEF UserStep

-----------------------------------------------------------------------------
(* Every open run is its task's current run *)

(* Stronger than OrphansExplained: among the processes of the system only    *)
(* loop_update takes an open run away from a task that has not expired.      *)
NoOrphan ==
  \A r \in OpenRuns(Stored \ updated) :
    tasks[runs[r].task].current = r \/ tasks[runs[r].task].expires <= now

\* The store's invariants that the next proofs rest on.
StoreFacts == TypeOK /\ Work /\ Places /\ RowsOK /\ SweepsPast /\ Ownership /\ RunsFiled

(* A completion of a task that has not expired ends its current run.        *)
LEMMA CompletesCurrent ==
  ASSUME StoreFacts, NoOrphan, NEW t \in Stored \ updated, tasks[t].expires > now,
         NEW r \in Run, NEW st, Completes(t, r, st)
  PROVE  tasks[t].current = r /\ tasks[t].status = "running"
<1>1. t \in Task /\ tasks[t] \in TaskRow /\ tasks[t].expires \in Nat /\ now \in Nat
  BY StoredRow DEF StoreFacts, TypeOK, TaskRow
<1>2. r \in OpenRuns(Stored \ updated) /\ runs[r].task = t
  BY DEF Completes, OpenRuns
<1>3. tasks[t].current = r
  BY <1>1, <1>2 DEF NoOrphan
<1>4. r # Null
  BY <1>2, ConstantsAssumption DEF OpenRuns, Recorded
<1> QED
  BY <1>3, <1>4 DEF StoreFacts, RowsOK, RowOK

(* No step of the system leaves an open run behind.                         *)
LEMMA NoOrphanStep ==
  ASSUME StoreFacts, NoOrphan, [SystemNext]_vars
  PROVE  NoOrphan'
<1> SUFFICES ASSUME NEW r \in Run, r \in Recorded', runs'[r].status = "running",
                    runs'[r].task \in Stored', runs'[r].task \notin updated'
             PROVE  \/ tasks'[runs'[r].task].current = r
                    \/ tasks'[runs'[r].task].expires <= now'
  BY DEF NoOrphan, OpenRuns, Recorded
<1> DEFINE t == runs'[r].task
<1>1. TypeOK /\ Work /\ Places /\ SweepsPast
  BY DEF StoreFacts
<1>2. /\ now <= now' /\ updated \subseteq updated' /\ now \in Nat /\ now' \in Nat
      /\ r # Null
  <2>1. TypeOK'
    BY <1>1, StoreStep, TypeStep
  <2> QED
    BY <1>1, <2>1, SystemMonotone, ConstantsAssumption DEF TypeOK
<1>3. CASE Opens(r)
  BY <1>3 DEF Opens
<1>4. CASE runs'[r] = runs[r]
  <2>1. r \in OpenRuns(Stored \ updated) /\ runs[r].task = t /\ t \in Stored
    BY <1>2, <1>4 DEF OpenRuns, StoreFacts, RunsFiled, Recorded
  <2>2. tasks[t].expires \in Nat /\ tasks[t] \in TaskRow
    BY <1>1, <2>1, StoredRow DEF TaskRow
  <2>3. tasks[t].current = r \/ tasks[t].expires <= now
    BY <2>1 DEF NoOrphan
  <2>4. tasks[t].current = r => tasks[t].status = "running"
    BY <1>2, <2>1 DEF StoreFacts, RowsOK, RowOK
  <2> HIDE DEF t
  <2>5. CASE tasks[t].expires <= now
    <3>1. tasks'[t].expires = tasks[t].expires
      BY <1>1, <2>1, RowStep
         DEF t, Stays, Expires, Loses, Claims, Cancels, Resumes, Updates, Aborts, Goes, Keeps,
             Completes, CompletesBare, Counts
    <3> QED
      BY <1>2, <2>2, <2>5, <3>1 DEF t
  <2>6. CASE tasks[t].current = r /\ tasks[t].expires > now
    <3>1. CASE Stays(t)
      BY <2>6, <3>1 DEF Stays, Goes, t
    <3>2. CASE Expires(t)
      BY <1>2, <2>2, <2>6, <3>2 DEF Expires
    <3>3. CASE Loses(t)
      BY <2>1, <3>3 DEF Loses, OpenRuns
    <3>4. CASE Claims(t) \/ Cancels(t) \/ Resumes(t) \/ Updates(t)
      BY <2>4, <2>6, <3>4 DEF Claims, Cancels, Resumes, Updates, t
    <3>5. CASE Aborts(t)
      <4>1. r \in OpenRuns(Task)
        BY <1>1, <2>1 DEF OpenRuns, Stored
      <4> QED
        BY <2>6, <3>5, <4>1 DEF Aborts, Swept
    <3>6. ASSUME NEW q \in Run, NEW st \in Reported, Completes(t, q, st) PROVE FALSE
      <4>1. tasks[t].current = q
        BY <2>1, <2>6, <3>6, CompletesCurrent DEF OpenRuns
      <4> QED
        BY <2>6, <3>6, <4>1 DEF Completes
    <3>7. ASSUME NEW st \in Reported, CompletesBare(t, st) PROVE FALSE
      BY <1>2, <2>6, <3>7 DEF CompletesBare
    <3> QED
      BY <1>1, <2>1, <3>1, <3>2, <3>3, <3>4, <3>5, <3>6, <3>7, RowStep DEF t
  <2> QED
    BY <1>2, <2>2, <2>3, <2>5, <2>6
<1> QED
  BY <1>1, <1>3, <1>4, RunStep DEF Swept, Completes

-----------------------------------------------------------------------------
(* How many turns a task may begin *)

Debt(t) == Cardinality(Unreported(t))

\* How often the task was made due again from outside.
Slack(t) == resumes[t] + bare[t]

(* The task may begin n more runs: each of these, and each unreported run,   *)
(* may still add one to run_count and one to consecutive_failures.           *)
Room(t, n) ==
  /\ Debt(t) + n <= 1 + Slack(t)
  /\ tasks[t].failures + Debt(t) + n <= MaxFailures + Slack(t)
  /\ tasks[t].args.maxRuns # Null =>
       tasks[t].runCount + Debt(t) + n <= Allowed(tasks[t].args) + Slack(t)

TurnBudget(t) ==
  /\ IsFiniteSet(Unreported(t))
  /\ Room(t, 0)
  /\ tasks[t].status = "active" => Room(t, 1)

TurnBudgets == \A t \in Stored : TurnBudget(t)

\* The run a task carries is one of the unreported ones.
CurrentUnreported == \A t \in Stored : tasks[t].current # Null => tasks[t].current \in Unreported(t)

(* The number of turns allowed is a number, at least one.                   *)
LEMMA AllowedType ==
  ASSUME NEW row \in TaskRow, row.args.maxRuns # Null
  PROVE  Allowed(row.args) \in Nat \ {0} /\ row.args.maxRuns \in Nat
BY ArgsAssumption DEF TaskRow, ArgsType, Allowed

(* A completion that leaves the task due leaves room for another one, which  *)
(* may fail.                                                                 *)
LEMMA RoomLeft ==
  ASSUME NEW row \in TaskRow, NEW st \in Reported, FinalStatus(row, st) = "active"
  PROVE  /\ st = "failed" => row.failures + 1 < MaxFailures
         /\ row.args.maxRuns # Null => row.runCount + 1 < Allowed(row.args)
<1>1. st = "failed" => row.failures + 1 < MaxFailures
  <2>1. Asked(row, st) = "active"
    BY DEF FinalStatus
  <2>2. ~(st = "failed" /\ row.failures + 1 >= MaxFailures)
    BY <2>1 DEF Asked
  <2>3. row.failures \in Nat /\ MaxFailures \in Nat
    BY ConstantsAssumption DEF TaskRow
  <2> QED
    BY <2>2, <2>3
<1>2. ASSUME row.args.maxRuns # Null
      PROVE  row.runCount + 1 < Allowed(row.args)
  <2>1. row.args.maxRuns \in Nat /\ row.runCount \in Nat
    BY <1>2, AllowedType DEF TaskRow
  <2>2. ~(row.runCount + 1 >= row.args.maxRuns)
    BY <1>2 DEF FinalStatus
  <2> QED
    BY <2>1, <2>2 DEF Allowed
<1> QED
  BY <1>1, <1>2

(* An unreported run after the step was so before, or is the new run of its *)
(* task.                                                                    *)
LEMMA UnreportedStep ==
  ASSUME StoreFacts, [SystemNext]_vars, NEW t \in Task, NEW r \in Unreported(t)'
  PROVE  \/ r \in Unreported(t) /\ \A u \in Task, st \in Reported : ~Completes(u, r, st)
         \/ r \in FreshRun /\ tasks'[t].current = r
<1>1. TypeOK /\ Work /\ Places /\ SweepsPast /\ r \in Run
  BY DEF StoreFacts, Unreported, Recorded
<1>2. \A u \in Task, st \in Reported : ~Completes(u, r, st)
  BY DEF Unreported, Completes
<1>3. CASE runs'[r] = runs[r]
  BY <1>1, <1>2, <1>3 DEF Unreported, Recorded
<1>4. CASE Opens(r)
  BY <1>4 DEF Opens, Unreported
<1>5. CASE Swept(r)
  BY <1>2, <1>5, ConstantsAssumption
     DEF Swept, Unreported, OpenRuns, StoreFacts, RunsFiled, Recorded
<1> QED
  BY <1>1, <1>2, <1>3, <1>4, <1>5, RunStep

(* A step adds at most the run it opens to the unreported runs of a task,    *)
(* and a completion removes the run it reports.                              *)
LEMMA DebtStep ==
  ASSUME StoreFacts, [SystemNext]_vars, NEW t \in Task, IsFiniteSet(Unreported(t))
  PROVE  /\ IsFiniteSet(Unreported(t)') /\ Debt(t)' \in Nat /\ Debt(t) \in Nat
         /\ Debt(t)' <= Debt(t) + 1
         /\ tasks'[t].current \notin FreshRun => Debt(t)' <= Debt(t)
         /\ \A r \in Run, st \in Reported : Completes(t, r, st) => Debt(t)' + 1 <= Debt(t)
<1> DEFINE old  == Unreported(t)
           new  == Unreported(t)'
           last == tasks'[t].current
<1>1. new \in SUBSET (old \cup {last})
  BY UnreportedStep
<1>2. last \notin FreshRun => new \in SUBSET old
  BY UnreportedStep
<1>3. ASSUME NEW r \in Run, NEW st \in Reported, Completes(t, r, st)
      PROVE  r \in old /\ new \in SUBSET (old \ {r})
  <2>1. r \in old
    BY <1>3, ConstantsAssumption DEF Completes, OpenRuns, Unreported, StoreFacts, RunsFiled
  <2>2. last \notin FreshRun
    BY <1>3, ConstantsAssumption DEF Completes, Counts, FreshRun
  <2>3. r \notin new
    BY <1>3, <2>2, UnreportedStep
  <2> QED
    BY <1>2, <2>1, <2>2, <2>3
<1>4. Debt(t) = Cardinality(old) /\ Debt(t)' = Cardinality(new)
  BY DEF Debt
<1>5. IsFiniteSet(old)
  OBVIOUS
<1> HIDE DEF old, new, last
<1>6. Cardinality(old) \in Nat
  BY <1>5, FS_CardinalityType
<1>7. IsFiniteSet(old \cup {last}) /\ Cardinality(old \cup {last}) <= Cardinality(old) + 1
      /\ Cardinality(old \cup {last}) \in Nat
  <2>1. /\ IsFiniteSet(old \cup {last})
        /\ Cardinality(old \cup {last}) =
             IF last \in old THEN Cardinality(old) ELSE Cardinality(old) + 1
    BY <1>5, FS_AddElement
  <2> QED
    BY <1>6, <2>1
<1>8. IsFiniteSet(new) /\ Cardinality(new) <= Cardinality(old \cup {last})
  BY <1>1, <1>7, FS_Subset
<1>9. Cardinality(new) \in Nat
  BY <1>8, FS_CardinalityType
<1>10. last \notin FreshRun => Cardinality(new) <= Cardinality(old)
  BY <1>2, <1>5, FS_Subset
<1>11. ASSUME NEW r \in Run, NEW st \in Reported, Completes(t, r, st)
       PROVE  Cardinality(new) + 1 <= Cardinality(old)
  <2>1. IsFiniteSet(old \ {r}) /\ Cardinality(old \ {r}) = Cardinality(old) - 1
    BY <1>3, <1>5, <1>11, FS_RemoveElement
  <2>2. Cardinality(new) <= Cardinality(old \ {r})
    BY <1>3, <1>11, <2>1, FS_Subset
  <2> QED
    BY <1>6, <1>9, <2>1, <2>2
<1>12. Cardinality(new) <= Cardinality(old) + 1
  BY <1>6, <1>7, <1>8, <1>9
<1>13. IsFiniteSet(Unreported(t)')
  BY <1>8 DEF new
<1>14. tasks'[t].current \notin FreshRun => Cardinality(new) <= Cardinality(old)
  BY <1>10 DEF last
<1> QED
  BY <1>4, <1>6, <1>9, <1>11, <1>12, <1>13, <1>14

(* A step that ends no run, begins none and makes the task due only if it    *)
(* was due or a user resumed it leaves it its budget.                        *)
LEMMA BudgetKept ==
  ASSUME StoreFacts, StoreFacts', [SystemNext]_vars, NEW t \in Stored, TurnBudget(t), Keeps(t),
         tasks'[t].current \notin FreshRun,
         tasks'[t].status # "active" \/ tasks[t].status = "active"
           \/ resumes'[t] = resumes[t] + 1
  PROVE  TurnBudget(t)'
<1>1. t \in Task /\ TypeOK /\ Work /\ SweepsPast /\ Places
  BY DEF StoreFacts, Stored
<1>2. /\ bare[t] \in Nat /\ bare'[t] \in Nat /\ resumes[t] \in Nat /\ resumes'[t] \in Nat
      /\ bare[t] <= bare'[t] /\ resumes[t] <= resumes'[t]
  BY <1>1, SystemMonotone DEF StoreFacts, TypeOK, Places
<1>3. /\ IsFiniteSet(Unreported(t)') /\ Debt(t)' \in Nat /\ Debt(t) \in Nat
      /\ Debt(t)' <= Debt(t)
  BY <1>1, DebtStep DEF TurnBudget
<1>4. /\ tasks'[t].failures = tasks[t].failures /\ tasks[t].failures \in Nat
      /\ tasks'[t].runCount = tasks[t].runCount /\ tasks[t].runCount \in Nat
      /\ tasks'[t].args = tasks[t].args /\ MaxFailures \in Nat
  BY <1>1, StoredRow, ConstantsAssumption DEF Keeps, TaskRow
<1>5. tasks[t].args.maxRuns # Null => Allowed(tasks[t].args) \in Nat
  BY <1>1, StoredRow, AllowedType
<1>6. Room(t, 0)'
  BY <1>2, <1>3, <1>4, <1>5 DEF TurnBudget, Room, Slack
<1>7. CASE tasks'[t].status = "active" /\ tasks[t].status = "active"
  BY <1>2, <1>3, <1>4, <1>5, <1>7 DEF TurnBudget, Room, Slack
<1>8. CASE resumes'[t] = resumes[t] + 1
  BY <1>2, <1>3, <1>4, <1>5, <1>8 DEF TurnBudget, Room, Slack
<1> QED
  BY <1>3, <1>6, <1>7, <1>8 DEF TurnBudget

(* A completion takes what it counts from the debt, or from the slack.       *)
LEMMA BudgetSpent ==
  ASSUME StoreFacts, StoreFacts', [SystemNext]_vars, NEW t \in Stored, TurnBudget(t),
         NEW st \in Reported,
         (\E r \in Run : Completes(t, r, st)) \/ CompletesBare(t, st)
  PROVE  TurnBudget(t)'
<1>1. t \in Task /\ TypeOK /\ Work /\ SweepsPast /\ Places
  BY DEF StoreFacts, Stored
<1>2. /\ bare[t] \in Nat /\ bare'[t] \in Nat /\ resumes[t] \in Nat /\ resumes'[t] \in Nat
      /\ bare[t] <= bare'[t] /\ resumes[t] <= resumes'[t]
  BY <1>1, SystemMonotone DEF StoreFacts, TypeOK, Places
<1>3. Counts(t, st)
  BY DEF Completes, CompletesBare
<1>4. /\ tasks[t] \in TaskRow /\ tasks[t].failures \in Nat /\ tasks[t].runCount \in Nat
      /\ tasks'[t].args = tasks[t].args /\ tasks'[t].runCount = tasks[t].runCount + 1
      /\ tasks'[t].status = FinalStatus(tasks[t], st)
      /\ MaxFailures \in Nat
  BY <1>1, <1>3, StoredRow, ConstantsAssumption DEF Counts, TaskRow
<1>5. \/ tasks'[t].failures = tasks[t].failures
      \/ tasks'[t].failures = tasks[t].failures + 1 /\ st = "failed"
  BY <1>3 DEF Counts
<1>6. /\ IsFiniteSet(Unreported(t)') /\ Debt(t)' \in Nat /\ Debt(t) \in Nat
      /\ Debt(t)' <= Debt(t)
      /\ Debt(t)' + 1 <= Debt(t) \/ bare'[t] = bare[t] + 1
  <2>1. tasks'[t].current \notin FreshRun
    BY <1>3, ConstantsAssumption DEF Counts, FreshRun
  <2>2. CompletesBare(t, st) => bare'[t] = bare[t] + 1
    BY <1>1 DEF CompletesBare, TypeOK
  <2> QED
    BY <1>1, <2>1, <2>2, DebtStep DEF TurnBudget
<1>7. /\ tasks[t].args.maxRuns # Null => Allowed(tasks[t].args) \in Nat
      /\ tasks'[t].status = "active" =>
           /\ st = "failed" => tasks[t].failures + 1 < MaxFailures
           /\ tasks[t].args.maxRuns # Null =>
                tasks[t].runCount + 1 < Allowed(tasks[t].args)
  BY <1>4, AllowedType, RoomLeft
<1>8. Room(t, 0)'
  BY <1>2, <1>4, <1>5, <1>6, <1>7 DEF TurnBudget, Room, Slack
<1>9. ASSUME tasks'[t].status = "active" PROVE Room(t, 1)'
  <2>1. Debt(t)' + 1 <= 1 + resumes'[t] + bare'[t]
    BY <1>2, <1>6 DEF TurnBudget, Room, Slack
  <2>2. tasks'[t].failures + Debt(t)' + 1 <= MaxFailures + resumes'[t] + bare'[t]
    BY <1>2, <1>4, <1>5, <1>6, <1>7, <1>9, <2>1 DEF TurnBudget, Room, Slack
  <2>3. tasks[t].args.maxRuns # Null =>
          tasks'[t].runCount + Debt(t)' + 1
            <= Allowed(tasks[t].args) + resumes'[t] + bare'[t]
    BY <1>2, <1>4, <1>6, <1>7, <1>9, <2>1
  <2> QED
    BY <1>2, <1>4, <1>6, <1>7, <2>1, <2>2, <2>3 DEF Room, Slack
<1> QED
  BY <1>6, <1>8, <1>9 DEF TurnBudget

(* No step of the system breaks the budget of a task.                       *)
LEMMA TurnBudgetsStep ==
  ASSUME StoreFacts, StoreFacts', TurnBudgets, [SystemNext]_vars
  PROVE  TurnBudgets'
<1> SUFFICES ASSUME NEW t \in Stored' PROVE TurnBudget(t)'
  BY DEF TurnBudgets
<1>1. TypeOK /\ Work /\ SweepsPast /\ Places /\ t \in Task
  BY DEF StoreFacts, Stored
<1>2. CASE t \notin Stored
  <2>1. /\ tasks'[t].runCount = 0 /\ tasks'[t].failures = 0 /\ tasks'[t] \in TaskRow
        /\ runs' = runs
    BY <1>1, <1>2, SystemMonotone
  <2>2. Unreported(t)' = {}
    BY <1>2, <2>1 DEF Unreported, StoreFacts, RunsFiled, Recorded
  <2>3. IsFiniteSet(Unreported(t)') /\ Debt(t)' = 0
    BY <2>2, FS_EmptySet DEF Debt
  <2>4. tasks'[t].args.maxRuns # Null => Allowed(tasks'[t].args) \in Nat \ {0}
    BY <2>1, AllowedType
  <2>5. bare'[t] \in Nat /\ resumes'[t] \in Nat /\ MaxFailures \in Nat \ {0}
    BY <1>1, ConstantsAssumption DEF StoreFacts, TypeOK, Places
  <2> QED
    BY <2>1, <2>3, <2>4, <2>5 DEF TurnBudget, Room, Slack
<1>3. CASE t \in Stored
  <2>1. TurnBudget(t)
    BY <1>3 DEF TurnBudgets
  <2>2. tasks[t].current \notin FreshRun /\ Null \notin FreshRun
    <3>1. Null \notin FreshRun
      BY ConstantsAssumption DEF FreshRun
    <3>2. tasks[t].current # Null => tasks[t].current \in Recorded
      BY <1>3 DEF StoreFacts, Ownership, CurrentRunOwned
    <3> QED
      BY <3>1, <3>2 DEF FreshRun
  <2>3. CASE Stays(t) \/ Expires(t) \/ Loses(t) \/ Cancels(t) \/ Aborts(t)
    <3>1. Keeps(t)
      BY <2>3 DEF Stays, Expires, Loses, Cancels, Aborts, Goes
    <3>2. tasks'[t].current \notin FreshRun
      BY <2>2, <2>3 DEF Stays, Expires, Loses, Cancels, Aborts, Goes
    <3>3. tasks'[t].status # "active" \/ tasks[t].status = "active"
      BY <2>3 DEF Stays, Expires, Loses, Cancels, Aborts, Goes
    <3> QED
      BY <1>3, <2>1, <3>1, <3>2, <3>3, BudgetKept
  <2>4. CASE Resumes(t) \/ Updates(t)
    <3>1. Keeps(t) /\ CountsResume(t)
      BY <2>4 DEF Resumes, Updates, Goes
    <3>2. tasks'[t].current \notin FreshRun
      BY <2>2, <2>4 DEF Resumes, Updates, Goes
    <3>3. tasks'[t].status # "active" \/ tasks[t].status = "active"
            \/ resumes'[t] = resumes[t] + 1
      BY <1>1, <3>1 DEF CountsResume, Places
    <3> QED
      BY <1>3, <2>1, <3>1, <3>2, <3>3, BudgetKept
  <2>5. CASE Claims(t)
    <3>1. /\ tasks[t].status = "active" /\ tasks'[t].status = "running"
          /\ tasks'[t].runCount = tasks[t].runCount /\ tasks'[t].args = tasks[t].args
          /\ tasks'[t].failures = tasks[t].failures
      BY <2>5 DEF Claims, Goes, Keeps
    <3>2. IsFiniteSet(Unreported(t)') /\ Debt(t)' \in Nat /\ Debt(t) \in Nat
          /\ Debt(t)' <= Debt(t) + 1
      BY <1>1, <2>1, DebtStep DEF TurnBudget
    <3>3. /\ bare[t] \in Nat /\ bare'[t] \in Nat /\ resumes[t] \in Nat /\ resumes'[t] \in Nat
          /\ bare[t] <= bare'[t] /\ resumes[t] <= resumes'[t]
      BY <1>1, SystemMonotone DEF StoreFacts, TypeOK, Places
    <3>4. /\ tasks[t].runCount \in Nat /\ tasks[t].failures \in Nat /\ MaxFailures \in Nat
          /\ tasks[t].args.maxRuns # Null => Allowed(tasks[t].args) \in Nat
      BY <1>1, <1>3, StoredRow, AllowedType, ConstantsAssumption DEF TaskRow
    <3>5. Room(t, 1)
      BY <2>1, <3>1 DEF TurnBudget
    <3>6. Room(t, 0)'
      BY <3>1, <3>2, <3>3, <3>4, <3>5 DEF Room, Slack
    <3> QED
      BY <3>1, <3>2, <3>6 DEF TurnBudget
  <2>6. ASSUME NEW st \in Reported, (\E r \in Run : Completes(t, r, st)) \/ CompletesBare(t, st)
        PROVE  TurnBudget(t)'
    BY <1>3, <2>1, <2>6, BudgetSpent
  <2> QED
    BY <1>1, <1>3, <2>3, <2>4, <2>5, <2>6, RowStep
<1> QED
  BY <1>2, <1>3

(* The run a task carries stays unreported as long as the task carries it.   *)
LEMMA CurrentUnreportedStep ==
  ASSUME StoreFacts, StoreFacts', CurrentUnreported, [SystemNext]_vars
  PROVE  CurrentUnreported'
<1> SUFFICES ASSUME NEW t \in Stored', tasks'[t].current # Null
             PROVE  tasks'[t].current \in Unreported(t)'
  BY DEF CurrentUnreported
<1> DEFINE r == tasks'[t].current
<1>1. TypeOK /\ Work /\ SweepsPast /\ Places
  BY DEF StoreFacts
<1>2. r \in Recorded' /\ runs'[r].task = t /\ r \in Run /\ t \in Task
  BY DEF StoreFacts, Ownership, CurrentRunOwned, Recorded, Stored
<1>3. SUFFICES runs'[r].source \notin CompletionSource
  BY <1>2 DEF Unreported, Recorded
<1>4. t \in Stored
  BY <1>1, SystemMonotone
<1>5. ASSUME NEW u \in Task, NEW st \in Reported, Completes(u, r, st) PROVE FALSE
  BY <1>2, <1>5 DEF Completes, Counts
<1>6. CASE Opens(r) \/ Swept(r)
  BY <1>6, ConstantsAssumption DEF Opens, Swept
<1>7. CASE runs'[r] = runs[r]
  <2>1. r \notin FreshRun
    BY <1>2, <1>7 DEF FreshRun, Recorded
  <2>2. tasks[t].current = r
    BY <1>1, <1>4, <2>1, RowStep
       DEF Stays, Expires, Loses, Claims, Cancels, Resumes, Updates, Aborts, Goes,
           Completes, CompletesBare, Counts
  <2> QED
    BY <1>4, <1>7, <2>2 DEF CurrentUnreported, Unreported
<1> QED
  BY <1>1, <1>2, <1>5, <1>6, <1>7, RunStep

-----------------------------------------------------------------------------
(* Retired tasks *)

(* A step leaves a retired task retired.                                    *)
LEMMA RetiredStep ==
  ASSUME StoreFacts, NoOrphan, [SystemNext]_vars,
         NEW t \in Stored, t \notin updated', bare'[t] = 0, tasks[t].expires > now,
         tasks[t].status \in {"cancelled", "done", "failed"}
  PROVE  \/ tasks'[t].status \in {"cancelled", tasks[t].status}
         \/ tasks'[t].status = "paused" /\ PreflightDue(t)
<1>1. TypeOK /\ Work /\ Places /\ SweepsPast /\ t \in Task
  BY DEF StoreFacts, Stored
<1>2. bare[t] = 0 /\ t \notin updated
  <2>1. bare[t] <= bare'[t] /\ bare[t] \in Nat
    BY <1>1, SystemMonotone DEF TypeOK
  <2> QED
    BY <1>1, <2>1, SystemMonotone
<1>3. ASSUME NEW st \in Reported, CompletesBare(t, st) PROVE FALSE
  BY <1>1, <1>2, <1>3 DEF CompletesBare, TypeOK
<1>4. ASSUME NEW r \in Run, NEW st \in Reported, Completes(t, r, st) PROVE FALSE
  BY <1>2, <1>4, CompletesCurrent
<1>5. CASE Stays(t) \/ Cancels(t)
  BY <1>5 DEF Stays, Cancels, Goes
<1>6. CASE Aborts(t)
  BY <1>6 DEF Aborts, Goes, PreflightDue, PreflightBlocks
<1>7. ~(Expires(t) \/ Loses(t) \/ Claims(t) \/ Resumes(t) \/ Updates(t))
  <2>1. tasks[t].expires \in Nat /\ now \in Nat
    BY <1>1, StoredRow DEF TaskRow, TypeOK
  <2> QED
    BY <2>1 DEF Expires, Loses, Claims, Resumes, Updates, Live
<1> QED
  BY <1>1, <1>2, <1>3, <1>4, <1>5, <1>6, <1>7, SystemMonotone, RowStep

-----------------------------------------------------------------------------
(* The composed system *)

TurnsInv == SystemInv /\ Places /\ CountInv /\ NoOrphan /\ TurnBudgets /\ CurrentUnreported

\* What the lemmas above take from the invariant.
LEMMA TurnsInvFacts == TurnsInv => StoreFacts /\ NoOrphan
BY DEF TurnsInv, SystemInv, CountInv, StoreInv, StoreFacts

(* A history of turns and of orphans that is empty is in order.              *)
LEMMA TurnsInit == SystemInit => TurnsInv
<1> SUFFICES ASSUME SystemInit PROVE TurnsInv
  OBVIOUS
<1>1. Stored = {} /\ Recorded = {} /\ Init
  BY DEF SystemInit, Init, Stored, Recorded
<1> QED
  BY <1>1, SystemInitInv, SystemInitPlaces, CountInit
     DEF TurnsInv, NoOrphan, TurnBudgets, CurrentUnreported, OpenRuns

(* The budgets and the open runs of all tasks, updated and resumed ones too, *)
(* in every reachable state.                                                 *)
THEOREM TurnsInvariant == SystemSpec => []TurnsInv
<1>1. TurnsInv /\ [SystemNext]_vars => TurnsInv'
  <2> SUFFICES ASSUME TurnsInv, [SystemNext]_vars PROVE TurnsInv'
    OBVIOUS
  <2>1. /\ StoreFacts /\ NoOrphan /\ TurnBudgets /\ CurrentUnreported
        /\ SystemInv /\ Places /\ CountInv
    BY TurnsInvFacts DEF TurnsInv
  <2>2. [Next]_svars
    BY <2>1, StoreStep DEF SystemInv
  <2>3. SystemInv' /\ Places'
    BY <2>1, <2>2, TypeStep, WorkStep, HandsStep, PlacesStep DEF SystemInv
  <2>4. CountInv'
    BY <2>1, <2>2, CountInvStep
  <2>5. StoreFacts'
    BY <2>3, <2>4 DEF SystemInv, CountInv, StoreInv, StoreFacts
  <2>6. TurnBudgets' /\ CurrentUnreported'
    BY <2>1, <2>5, TurnBudgetsStep, CurrentUnreportedStep
  <2> QED
    BY <2>1, <2>3, <2>4, <2>6, NoOrphanStep DEF TurnsInv
<1> QED
  BY TurnsInit, <1>1, PTL DEF SystemSpec

(* The ledger of runs and the exact count hold whatever daemons, hooks,      *)
(* turns and users do.                                                       *)
THEOREM SystemCounts == SystemSpec => []RunCountExact /\ LedgerSpec
BY SystemImplementsStore, RunsCounted, StoreImplementsLedger, PTL DEF StoreSpec

(* The open runs of a task that has not expired are one at most: however     *)
(* many daemons and hooks acquire it, one live turn's report still counts.   *)
(* Of an updated or expired task they are unreported, and the budget bounds  *)
(* those.                                                                    *)
THEOREM OneTurnCounts == SystemSpec => []OneOpenTurn
<1>1. TurnsInv => OneOpenTurn
  <2> SUFFICES ASSUME TurnsInv, NEW t \in Stored
               PROVE  /\ Cardinality(OpenTurnsOf(t)) <= 1 + resumes[t] + bare[t]
                      /\ t \notin updated /\ tasks[t].expires > now
                           => Cardinality(OpenTurnsOf(t)) <= 1
    BY DEF OneOpenTurn
  <2>1. tasks[t].expires \in Nat /\ now \in Nat /\ bare[t] \in Nat /\ resumes[t] \in Nat
    BY StoredRow DEF TurnsInv, SystemInv, Places, TypeOK, TaskRow, Stored
  <2>2. Cardinality(OpenTurnsOf(t)) <= 1 + resumes[t] + bare[t]
    <3>1. OpenTurnsOf(t) \in SUBSET Unreported(t)
      BY ConstantsAssumption DEF TurnsInv, CountInv, RunsFiled, OpenTurnsOf, TurnsOf, Unreported
    <3>2. TurnBudget(t)
      BY DEF TurnsInv, TurnBudgets
    <3>3. IsFiniteSet(Unreported(t)) /\ Debt(t) \in Nat
      BY <3>2, FS_CardinalityType DEF TurnBudget, Debt
    <3>4. IsFiniteSet(OpenTurnsOf(t)) /\ Cardinality(OpenTurnsOf(t)) <= Debt(t)
      BY <3>1, <3>3, FS_Subset DEF Debt
    <3>5. Cardinality(OpenTurnsOf(t)) \in Nat
      BY <3>4, FS_CardinalityType
    <3>6. Debt(t) <= 1 + (resumes[t] + bare[t])
      BY <2>1, <3>2, <3>3 DEF TurnBudget, Room, Slack
    <3> QED
      BY <2>1, <3>3, <3>4, <3>5, <3>6
  <2>3. ASSUME t \notin updated, tasks[t].expires > now
        PROVE  Cardinality(OpenTurnsOf(t)) <= 1
    <3>1. \A r \in OpenTurnsOf(t) : r = tasks[t].current
      BY <2>1, <2>3 DEF TurnsInv, NoOrphan, OpenRuns, OpenTurnsOf, TurnsOf
    <3>2. OpenTurnsOf(t) \in SUBSET {tasks[t].current}
      BY <3>1
    <3>3. IsFiniteSet({tasks[t].current}) /\ Cardinality({tasks[t].current}) = 1
      BY FS_Singleton
    <3>4. Cardinality(OpenTurnsOf(t)) <= Cardinality({tasks[t].current})
      BY <3>2, <3>3, FS_Subset
    <3> QED
      BY <3>3, <3>4
  <2> QED
    BY <2>2, <2>3
<1> QED
  BY <1>1, TurnsInvariant, PTL

(* max_runs bounds the turns begun for a task.  Each run whose turn began    *)
(* was counted in run_count or is unreported; the budget bounds the two      *)
(* together.                                                                 *)
THEOREM TurnsBounded == SystemSpec => []TurnsWithinMaxRuns
<1>1. TurnsInv => TurnsWithinMaxRuns
  <2> SUFFICES ASSUME TurnsInv, NEW t \in Stored, tasks[t].args.maxRuns # Null
               PROVE  Cardinality(TurnsOf(t)) <= Allowed(tasks[t].args) + resumes[t]
    BY DEF TurnsWithinMaxRuns
  <2>1. /\ Allowed(tasks[t].args) \in Nat /\ tasks[t].runCount \in Nat
        /\ bare[t] \in Nat /\ resumes[t] \in Nat /\ t \in Task
    BY StoredRow, AllowedType DEF TurnsInv, SystemInv, Places, TypeOK, TaskRow, Stored
  <2>2. /\ IsFiniteSet(Counted(t)) /\ Cardinality(Counted(t)) \in Nat
        /\ tasks[t].runCount = bare[t] + Cardinality(Counted(t))
    BY <2>1, FS_CardinalityType DEF TurnsInv, CountInv, CountsOK
  <2>3. /\ IsFiniteSet(Unreported(t)) /\ Cardinality(Unreported(t)) \in Nat
        /\ tasks[t].runCount + Cardinality(Unreported(t))
             <= Allowed(tasks[t].args) + (resumes[t] + bare[t])
    <3>1. TurnBudget(t)
      BY DEF TurnsInv, TurnBudgets
    <3>2. IsFiniteSet(Unreported(t)) /\ Debt(t) \in Nat
      BY <3>1, FS_CardinalityType DEF TurnBudget, Debt
    <3> QED
      BY <2>1, <3>1, <3>2 DEF TurnBudget, Room, Slack, Debt
  <2>4. TurnsOf(t) \in SUBSET (Counted(t) \cup Unreported(t))
    BY DEF TurnsOf, Counted, Unreported
  <2>5. /\ IsFiniteSet(Counted(t) \cup Unreported(t))
        /\ Cardinality(Counted(t) \cup Unreported(t))
             <= Cardinality(Counted(t)) + Cardinality(Unreported(t))
    <3>1. IsFiniteSet(Counted(t) \cap Unreported(t))
      BY <2>2, FS_Intersection
    <3>2. Cardinality(Counted(t) \cap Unreported(t)) \in Nat
      BY <3>1, FS_CardinalityType
    <3>3. /\ IsFiniteSet(Counted(t) \cup Unreported(t))
          /\ Cardinality(Counted(t) \cup Unreported(t)) =
               Cardinality(Counted(t)) + Cardinality(Unreported(t))
                 - Cardinality(Counted(t) \cap Unreported(t))
      BY <2>2, <2>3, FS_Union
    <3> QED
      BY <2>2, <2>3, <3>2, <3>3
  <2>6. IsFiniteSet(TurnsOf(t))
        /\ Cardinality(TurnsOf(t)) <= Cardinality(Counted(t) \cup Unreported(t))
    BY <2>4, <2>5, FS_Subset
  <2>7. Cardinality(TurnsOf(t)) \in Nat /\ Cardinality(Counted(t) \cup Unreported(t)) \in Nat
    BY <2>5, <2>6, FS_CardinalityType
  <2> QED
    BY <2>1, <2>2, <2>3, <2>5, <2>6, <2>7
<1> QED
  BY <1>1, TurnsInvariant, PTL

(* MaxFailures failed iterations pause the task: while it is due, the budget *)
(* has room for one failure more, and while it runs, its run is unreported.  *)
THEOREM FailuresPause == SystemSpec => []RepeatedFailuresPause
<1>1. TurnsInv => RepeatedFailuresPause
  <2> SUFFICES ASSUME TurnsInv, NEW t \in Stored, tasks[t].status \in {"active", "running"}
               PROVE  tasks[t].failures < MaxFailures + resumes[t] + bare[t]
    BY DEF RepeatedFailuresPause
  <2>1. /\ tasks[t].failures \in Nat /\ MaxFailures \in Nat
        /\ bare[t] \in Nat /\ resumes[t] \in Nat
    BY StoredRow, ConstantsAssumption DEF TurnsInv, SystemInv, Places, TypeOK, TaskRow, Stored
  <2>2. TurnBudget(t)
    BY DEF TurnsInv, TurnBudgets
  <2>3. IsFiniteSet(Unreported(t)) /\ Debt(t) \in Nat
    BY <2>2, FS_CardinalityType DEF TurnBudget, Debt
  <2>4. CASE tasks[t].status = "active"
    BY <2>1, <2>2, <2>3, <2>4 DEF TurnBudget, Room, Slack
  <2>5. CASE tasks[t].status = "running"
    <3>1. tasks[t].current # Null
      BY <2>5, TurnsInvFacts DEF StoreFacts, RowsOK, RowOK
    <3>2. Unreported(t) # {}
      BY <3>1 DEF TurnsInv, CurrentUnreported
    <3>3. Debt(t) # 0
      BY <2>3, <3>2, FS_EmptySet DEF Debt
    <3> QED
      BY <2>1, <2>2, <2>3, <3>3 DEF TurnBudget, Room, Slack
  <2> QED
    BY <2>4, <2>5
<1> QED
  BY <1>1, TurnsInvariant, PTL

(* A cancelled, finished or failed task stays so through late reports,       *)
(* retries and daemons, until loop_update, a completion without a run, or    *)
(* its expiry.                                                               *)
THEOREM RetiredStaysRetired == SystemSpec => RetiredForGood
<1>1. TurnsInv /\ [SystemNext]_vars =>
        [\A t \in Stored \ updated' :
           /\ tasks[t].status \in {"cancelled", "done", "failed"}
           /\ bare'[t] = 0
           /\ tasks[t].expires > now
           => \/ tasks'[t].status \in {"cancelled", tasks[t].status}
              \/ tasks'[t].status = "paused" /\ PreflightDue(t)]_vars
  BY TurnsInvFacts, RetiredStep
<1> QED
  BY <1>1, TurnsInvariant, PTL DEF SystemSpec, RetiredForGood

=============================================================================
