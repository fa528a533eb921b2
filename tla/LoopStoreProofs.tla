-------------------------- MODULE LoopStoreProofs --------------------------
(* Proofs about LoopStore, for every value of its constants. *)
EXTENDS LoopStore, TLAPS

(* A released row keeps its type and every column but three. *)
LEMMA ReleaseType ==
  ASSUME NEW row \in TaskRow, NEW st \in Status
  PROVE  /\ Release(row, st) \in TaskRow
         /\ Release(row, st).status = st
         /\ Release(row, st).current = Null
         /\ Release(row, st).lease = Null
         /\ Release(row, st).thread = row.thread
         /\ Release(row, st).bound = row.bound
         /\ Release(row, st).expires = row.expires
BY DEF Release, TaskRow

(* Ending a run keeps its type and its task. *)
LEMMA EndedType ==
  ASSUME NEW run \in RunRow, NEW st \in RunStatus,
         NEW src \in CompletionSource \cup SweepSource
  PROVE  /\ Ended(run, st, src) \in RunRow
         /\ Ended(run, st, src).task = run.task
         /\ Ended(run, st, src).status = st
         /\ Ended(run, st, src).source = src
BY DEF Ended, RunRow

(* The row create_task inserts is a task row, active and without a run.     *)
LEMMA NewTaskType ==
  ASSUME NEW args \in CreateArgs, NEW th \in Thread \cup {Current}, NEW c \in Nat
  PROVE  /\ NewTask(args, th, c) \in TaskRow
         /\ NewTask(args, th, c).status = "active"
         /\ NewTask(args, th, c).current = Null
         /\ NewTask(args, th, c).lease = Null
         /\ NewTask(args, th, c).bound = (th # Current)
         /\ NewTask(args, th, c).thread = th
<1>1. args.interval \in Nat
  BY ArgsAssumption DEF ArgsType
<1>2. BaseDelay(args) \in Nat
  BY <1>1, ConstantsAssumption DEF BaseDelay
<1>3. c + BaseDelay(args) \in Nat /\ c + Expire \in Nat
  BY <1>2, ConstantsAssumption
<1> QED
  BY <1>3 DEF NewTask, TaskRow, Status

(* No completion leaves a task running.                                     *)
LEMMA StatusAfter ==
  ASSUME NEW row, NEW st \in Reported
  PROVE  /\ FinalStatus(row, st) \in Status
         /\ FinalStatus(row, st) # "running"
BY DEF FinalStatus, Asked, Status

(* The delay until the next iteration is a natural number.                  *)
LEMMA DelayType ==
  ASSUME NEW t \in Task, tasks[t] \in TaskRow, NEW d \in Delays
  PROVE  DelayOf(t, d) \in Nat
<1>1. BaseDelay(tasks[t].args) \in Nat
  BY ArgsAssumption, ConstantsAssumption DEF BaseDelay, TaskRow, ArgsType
<1>2. DynamicDelay(d) \in Nat
  BY ConstantsAssumption DEF DynamicDelay
<1> QED
  BY <1>1, <1>2, ConstantsAssumption DEF DelayOf

(* The row complete_iteration writes is a task row; its thread is the old   *)
(* one or the one reported.                                                 *)
LEMMA CompletedType ==
  ASSUME NEW t \in Task, tasks[t] \in TaskRow, NEW st \in Reported,
         NEW d \in Delays, NEW th \in Reports, NEW c \in Nat
  PROVE  /\ CompletedRow(t, st, d, th, c) \in TaskRow
         /\ CompletedRow(t, st, d, th, c).status = FinalStatus(tasks[t], st)
         /\ CompletedRow(t, st, d, th, c).current = Null
         /\ CompletedRow(t, st, d, th, c).lease = Null
         /\ CompletedRow(t, st, d, th, c).bound = tasks[t].bound
         /\ CompletedRow(t, st, d, th, c).expires = tasks[t].expires
         /\ CompletedRow(t, st, d, th, c).runCount = tasks[t].runCount + 1
         /\ CompletedRow(t, st, d, th, c).thread
              \in {tasks[t].thread} \cup (Reports \cap (Thread \cup {Current}))
<1> DEFINE old == tasks[t]
           rel == Release(old, FinalStatus(old, st))
<1>1. FinalStatus(old, st) \in Status
  BY StatusAfter
<1>2. rel \in TaskRow /\ rel.status = FinalStatus(old, st) /\ rel.current = Null
        /\ rel.lease = Null /\ rel.bound = old.bound /\ rel.expires = old.expires
  BY <1>1, ReleaseType
<1>3. c + DelayOf(t, d) \in Nat
  BY DelayType
<1>4. old.runCount + 1 \in Nat /\ old.failures + 1 \in Nat /\ old.next \in Nat
        /\ old.failures \in Nat /\ old.thread \in Thread \cup {Current}
  BY DEF TaskRow
<1> DEFINE thread2 == IF th = Null THEN old.thread ELSE th
           next2   == IF FinalStatus(old, st) = "active" THEN c + DelayOf(t, d) ELSE old.next
           fails2  == IF st = "failed" /\ ~old.cancel THEN old.failures + 1 ELSE old.failures
           count2  == old.runCount + 1
<1>5. /\ thread2 \in Thread \cup {Current} /\ thread2 \in {old.thread} \cup (Reports \cap (Thread \cup {Current}))
      /\ next2 \in Nat /\ fails2 \in Nat /\ count2 \in Nat
  BY <1>3, <1>4, ConstantsAssumption
<1>6. CompletedRow(t, st, d, th, c) =
        [rel EXCEPT !.thread = thread2, !.next = next2, !.runCount = count2,
                    !.failures = fails2, !.cancel = FALSE]
  BY DEF CompletedRow
<1>7. count2 = tasks[t].runCount + 1
  OBVIOUS
<1> HIDE DEF rel, thread2, next2, fails2, count2
<1>8. CompletedRow(t, st, d, th, c) \in TaskRow
  BY <1>2, <1>5, <1>6 DEF TaskRow
<1> QED
  BY <1>2, <1>5, <1>6, <1>7, <1>8 DEF TaskRow

-----------------------------------------------------------------------------
(* Typing *)

(* An open run of some tasks is a stored run of one of them.                *)
LEMMA OpenRunIsRow ==
  ASSUME TypeOK, NEW ts, NEW r \in OpenRuns(ts)
  PROVE  r \in Run /\ runs[r] \in RunRow /\ runs[r].task \in ts
BY DEF TypeOK, OpenRuns, Recorded

(* A stored task has a task row.                                            *)
LEMMA StoredRow ==
  ASSUME TypeOK, NEW t \in Stored
  PROVE  t \in Task /\ tasks[t] \in TaskRow
BY DEF TypeOK, Stored

(* Failing the open runs of some tasks keeps loop_runs well typed.          *)
LEMMA FailRunsType ==
  ASSUME TypeOK, NEW ts, NEW src \in SweepSource, FailRunsOf(ts, src)
  PROVE  runs' \in [Run -> RunRow \cup {Null}]
<1> SUFFICES ASSUME NEW r \in Run
             PROVE  (IF r \in OpenRuns(ts) THEN Ended(runs[r], "failed", src)
                     ELSE runs[r]) \in RunRow \cup {Null}
  BY DEF FailRunsOf
<1>1. CASE r \in OpenRuns(ts)
  BY <1>1, OpenRunIsRow, EndedType DEF RunStatus
<1>2. CASE r \notin OpenRuns(ts)
  BY <1>2 DEF TypeOK
<1> QED
  BY <1>1, <1>2

(* acquire_due_tasks keeps both tables well typed.                          *)
LEMMA AcquireType ==
  ASSUME TypeOK, NEW c \in Stamp, NEW limit, NEW th, NEW claim,
         AcquireDueTasks(claim, c, limit, th)
  PROVE  /\ tasks' \in [Task -> TaskRow \cup {Null}]
         /\ runs' \in [Run -> RunRow \cup {Null}]
         /\ DOMAIN claim \subseteq Due(c, th)
         /\ DOMAIN claim \subseteq Stored
         /\ \A t \in DOMAIN claim : claim[t] \in FreshRun
         /\ \A t, u \in DOMAIN claim : claim[t] = claim[u] => t = u
<1>1. DOMAIN claim \subseteq Due(c, th)
  BY DEF AcquireDueTasks, Batches
<1>2. DOMAIN claim \subseteq Stored
  BY <1>1 DEF Due
<1>3. /\ \A t \in DOMAIN claim : claim[t] \in FreshRun
      /\ \A t, u \in DOMAIN claim : claim[t] = claim[u] => t = u
  BY DEF AcquireDueTasks, Injection, IsInjective
<1>4. c \in Nat /\ c + Lease \in Nat
  BY ConstantsAssumption DEF Stamp
<1>5. ASSUME NEW t \in Task PROVE tasks'[t] \in TaskRow \cup {Null}
  <2>1. CASE t \in DOMAIN claim
    <3>1. tasks[t] \in TaskRow /\ claim[t] \in Run
      BY <1>2, <1>3, <2>1, StoredRow DEF FreshRun
    <3>2. Claimed(tasks[t], claim[t], c) \in TaskRow
      BY <1>4, <3>1 DEF Claimed, TaskRow, Status
    <3> QED
      BY <2>1, <3>2 DEF AcquireDueTasks
  <2>2. CASE t \notin DOMAIN claim /\ t \in LeaseRanOut(c)
    <3>1. tasks[t] \in TaskRow
      BY <2>2, StoredRow DEF LeaseRanOut
    <3>2. Release(tasks[t], "failed") \in TaskRow
      BY <3>1, ReleaseType DEF Status
    <3> QED
      BY <2>2, <3>2 DEF AcquireDueTasks
  <2>3. CASE t \notin DOMAIN claim /\ t \notin LeaseRanOut(c)
    BY <2>3 DEF AcquireDueTasks, TypeOK
  <2> QED
    BY <2>1, <2>2, <2>3
<1>6. ASSUME NEW r \in Run PROVE runs'[r] \in RunRow \cup {Null}
  <2>1. CASE \E t \in DOMAIN claim : claim[t] = r
    <3> DEFINE owner == CHOOSE t \in DOMAIN claim : claim[t] = r
    <3>1. owner \in Task
      BY <1>2, <2>1, StoredRow
    <3>2. NewRun(owner) \in RunRow
      BY <3>1 DEF NewRun, RunRow, RunStatus
    <3> QED
      BY <2>1, <3>2 DEF AcquireDueTasks
  <2>2. CASE ~(\E t \in DOMAIN claim : claim[t] = r) /\ r \in OpenRuns(LeaseRanOut(c))
    <3>1. runs[r] \in RunRow
      BY <2>2, OpenRunIsRow
    <3>2. Ended(runs[r], "failed", "lease_expired") \in RunRow
      BY <3>1, EndedType DEF RunStatus, SweepSource
    <3> QED
      BY <2>2, <3>2 DEF AcquireDueTasks
  <2>3. CASE ~(\E t \in DOMAIN claim : claim[t] = r) /\ r \notin OpenRuns(LeaseRanOut(c))
    BY <2>3 DEF AcquireDueTasks, TypeOK
  <2> QED
    BY <2>1, <2>2, <2>3
<1>7. tasks' \in [Task -> TaskRow \cup {Null}] /\ runs' \in [Run -> RunRow \cup {Null}]
  BY <1>5, <1>6 DEF AcquireDueTasks
<1> QED
  BY <1>1, <1>2, <1>3, <1>7

(* The operations that create or edit a task keep the types.                *)
LEMMA EditType ==
  ASSUME TypeOK, NEW t \in Task, Edit(t)
  PROVE  TypeOK'
<1>1. ASSUME NEW args \in CreateArgs, NEW th \in Thread \cup {Current}, NEW c \in Stamp,
             CreateTask(t, args, th, c)
      PROVE  TypeOK'
  <2>1. NewTask(args, th, c) \in TaskRow
    BY NewTaskType DEF Stamp
  <2> QED
    BY <1>1, <2>1 DEF CreateTask, TypeOK
<1>2. ASSUME NEW st \in Settable, UpdateStatus(t, st)
      PROVE  TypeOK'
  <2>1. Updated(tasks[t], st) \in TaskRow /\ tasks[t].current \in Run \cup {Null}
    BY <1>2, StoredRow, ReleaseType DEF UpdateStatus, Updated, Settable, Status, TaskRow
  <2> QED
    BY <1>2, <2>1 DEF UpdateStatus, TypeOK
<1>3. ASSUME RequestCancel(t)
      PROVE  TypeOK'
  <2>1. tasks[t] \in TaskRow
    BY <1>3, StoredRow DEF RequestCancel
  <2>2. Release(tasks[t], "cancelled") \in TaskRow
    BY <2>1, ReleaseType DEF Status
  <2>3. \A row \in TaskRow, b \in BOOLEAN : [row EXCEPT !.cancel = b] \in TaskRow
    BY DEF TaskRow
  <2>4. /\ [tasks[t] EXCEPT !.cancel = TRUE] \in TaskRow
        /\ [Release(tasks[t], "cancelled") EXCEPT !.cancel = FALSE] \in TaskRow
    BY <2>1, <2>2, <2>3
  <2> QED
    BY <1>3, <2>4 DEF RequestCancel, TypeOK
<1>4. ASSUME NEW th \in Thread, NEW resume \in BOOLEAN, BindTaskThread(t, th, resume)
      PROVE  TypeOK'
  <2> DEFINE st == IF resume /\ tasks[t].status = "paused" THEN "active" ELSE tasks[t].status
  <2>1. tasks[t] \in TaskRow
    BY <1>4, StoredRow DEF BindTaskThread
  <2>2. st \in Status
    BY <2>1 DEF TaskRow, Status
  <2>3. tasks' = [tasks EXCEPT ![t] =
                    [tasks[t] EXCEPT !.thread = th, !.bound = TRUE, !.status = st]]
    BY <1>4 DEF BindTaskThread
  <2> HIDE DEF st
  <2>4. [tasks[t] EXCEPT !.thread = th, !.bound = TRUE, !.status = st] \in TaskRow
    BY <2>1, <2>2 DEF TaskRow
  <2> QED
    BY <1>4, <2>3, <2>4 DEF BindTaskThread, TypeOK
<1>5. ASSUME NEW th \in Thread, ReplaceTaskThread(t, th)
      PROVE  TypeOK'
  <2>1. tasks[t] \in TaskRow
    BY <1>5, StoredRow DEF ReplaceTaskThread
  <2>2. [tasks[t] EXCEPT !.thread = th, !.bound = TRUE] \in TaskRow
    BY <2>1 DEF TaskRow
  <2> QED
    BY <1>5, <2>2 DEF ReplaceTaskThread, TypeOK
<1> QED
  BY <1>1, <1>2, <1>3, <1>4, <1>5 DEF Edit

(* Either statement of an expiry keeps the types.                           *)
LEMMA SweepsType ==
  ASSUME TypeOK, NEW p \in Proc, Sweeps(p)
  PROVE  TypeOK'
<1>1. ASSUME NEW c \in Stamp, ExpireRuns(p, c)
      PROVE  TypeOK'
  <2>1. runs' \in [Run -> RunRow \cup {Null}]
    BY <1>1, FailRunsType DEF ExpireRuns, SweepSource
  <2>2. c \in Nat
    BY DEF Stamp
  <2> QED
    BY <1>1, <2>1, <2>2 DEF ExpireRuns, TypeOK
<1>2. ASSUME ExpireTasks(p)
      PROVE  TypeOK'
  <2>1. \A t \in PastExpiry(sweep[p]) : Release(tasks[t], "expired") \in TaskRow
    BY StoredRow, ReleaseType DEF PastExpiry, Status
  <2> QED
    BY <1>2, <2>1 DEF ExpireTasks, TypeOK
<1>3. ASSUME AbandonSweep(p)
      PROVE  TypeOK'
  BY <1>3 DEF AbandonSweep, TypeOK
<1> QED
  BY <1>1, <1>2, <1>3 DEF Sweeps

(* Completing or aborting an iteration keeps the types.                     *)
LEMMA EndType ==
  ASSUME TypeOK, NEW t \in Task, End(t)
  PROVE  TypeOK'
<1>1. ASSUME NEW rid \in Run \cup {Null}, NEW st \in Reported, NEW d \in Delays,
             NEW th \in Reports, NEW src \in CompletionSource, NEW c \in Stamp,
             CompleteIteration(t, rid, st, d, th, src, c)
      PROVE  TypeOK'
  <2>1. CASE CompleteAgain(t, rid)
    BY <2>1 DEF CompleteAgain, svars, TypeOK
  <2>2. CASE CompleteRun(t, rid, st, d, th, src, c)
    <3> DEFINE r == EffectiveRun(t, rid)
    <3>1. tasks[t] \in TaskRow
      BY <2>2, StoredRow DEF CompleteRun
    <3>2. CompletedRow(t, st, d, th, c) \in TaskRow
      <4>1. c \in Nat
        BY DEF Stamp
      <4> QED
        BY <3>1, <4>1, CompletedType
    <3>3. r \in Run /\ runs[r] \in RunRow
      BY <2>2, OpenRunIsRow DEF CompleteRun
    <3>4. RunOutcome(tasks[t], st) \in RunStatus
      BY DEF RunOutcome, RunStatus
    <3>5. Ended(runs[r], RunOutcome(tasks[t], st), src) \in RunRow
      BY <3>3, <3>4, EndedType
    <3>6. tasks[t].current \in Run \cup {Null}
      BY <3>1 DEF TaskRow
    <3> QED
      BY <2>2, <3>2, <3>5, <3>6 DEF CompleteRun, TypeOK
  <2>3. CASE CompleteBare(t, st, d, th, c)
    <3>1. CompletedRow(t, st, d, th, c) \in TaskRow
      BY <2>3, StoredRow, CompletedType DEF CompleteBare, Stamp
    <3> QED
      BY <2>3, <3>1 DEF CompleteBare, TypeOK
  <2> QED
    BY <1>1, <2>1, <2>2, <2>3 DEF CompleteIteration
<1>2. ASSUME AbortCurrentRun(t, "paused")
      PROVE  TypeOK'
  <2>1. Release(tasks[t], "paused") \in TaskRow
    BY <1>2, StoredRow, ReleaseType DEF AbortCurrentRun, Status
  <2>2. ASSUME NEW r \in Run PROVE runs'[r] \in RunRow \cup {Null}
    BY <1>2, EndedType DEF AbortCurrentRun, Recorded, RunStatus, SweepSource, TypeOK
  <2> QED
    BY <1>2, <2>1, <2>2 DEF AbortCurrentRun, TypeOK
<1> QED
  BY <1>1, <1>2 DEF End

(* Every step of the store keeps the types.                                 *)
LEMMA TypeStep == TypeOK /\ [Next]_svars => TypeOK'
<1> SUFFICES ASSUME TypeOK, [Next]_svars PROVE TypeOK'
  OBVIOUS
<1>1. CASE Tick
  BY <1>1 DEF Tick, TypeOK
<1>2. CASE OpenStore
  <2>1. \A t \in Stored : [tasks[t] EXCEPT !.bound = TRUE] \in TaskRow
    BY StoredRow DEF TaskRow
  <2> QED
    BY <1>2, <2>1 DEF OpenStore, TypeOK
<1>3. CASE \E t \in Task : Edit(t)
  BY <1>3, EditType
<1>4. CASE \E p \in Proc : Sweeps(p)
  BY <1>4, SweepsType
<1>5. CASE Acquire
  <2>1. PICK c \in Stamp, limit \in Limits, th \in Thread \cup {Null} :
          \E S \in SUBSET Due(c, th) : \E claim \in Injection(S, FreshRun) :
            AcquireDueTasks(claim, c, limit, th)
    BY <1>5 DEF Acquire
  <2>2. PICK claim : AcquireDueTasks(claim, c, limit, th)
    BY <2>1
  <2>3. tasks' \in [Task -> TaskRow \cup {Null}] /\ runs' \in [Run -> RunRow \cup {Null}]
    BY <2>2, AcquireType
  <2> QED
    BY <2>2, <2>3 DEF AcquireDueTasks, TypeOK
<1>6. CASE \E t \in Task : End(t)
  BY <1>6, EndType
<1>7. CASE UNCHANGED svars
  BY <1>7 DEF svars, TypeOK
<1> QED
  BY <1>1, <1>2, <1>3, <1>4, <1>5, <1>6, <1>7 DEF Next

(* Every reachable state of the two tables is well typed, for any number of *)
(* tasks, runs and processes and any lease, expiry and cap.                 *)
THEOREM Typing == Spec => []TypeOK
<1>1. Init => TypeOK
  BY DEF Init, TypeOK
<1>2. TypeOK /\ [Next]_svars => TypeOK'
  BY TypeStep
<1> QED
  BY <1>1, <1>2, PTL DEF Spec

-----------------------------------------------------------------------------
(* Runs end once *)

(* Failing the open runs of some tasks touches no run that has ended.       *)
LEMMA FailRunsMonotone ==
  ASSUME TypeOK, NEW ts, NEW src \in SweepSource, FailRunsOf(ts, src)
  PROVE  RunsMonotone
<1> SUFFICES ASSUME NEW r \in Recorded
             PROVE  /\ runs'[r] # Null
                    /\ runs'[r].task = runs[r].task
                    /\ runs[r].status # "running" => runs'[r] = runs[r]
  BY DEF RunsMonotone
<1>1. r \in Run /\ runs[r] \in RunRow
  BY DEF Recorded, TypeOK
<1>2. /\ Ended(runs[r], "failed", src) \in RunRow
      /\ Ended(runs[r], "failed", src).task = runs[r].task
  <2>1. "failed" \in RunStatus /\ src \in CompletionSource \cup SweepSource
    BY DEF RunStatus
  <2> QED
    BY <1>1, <2>1, EndedType
<1>3. Ended(runs[r], "failed", src) # Null
  BY <1>2, NullAssumption
<1> QED
  BY <1>1, <1>2, <1>3 DEF FailRunsOf, OpenRuns, Recorded

(* acquire_due_tasks touches no run that has ended.                         *)
LEMMA AcquireMonotone ==
  ASSUME TypeOK, NEW c \in Stamp, NEW limit, NEW th, NEW claim,
         AcquireDueTasks(claim, c, limit, th)
  PROVE  RunsMonotone
<1> SUFFICES ASSUME NEW r \in Recorded
             PROVE  /\ runs'[r] # Null
                    /\ runs'[r].task = runs[r].task
                    /\ runs[r].status # "running" => runs'[r] = runs[r]
  BY DEF RunsMonotone
<1>1. r \in Run /\ runs[r] \in RunRow
  BY DEF Recorded, TypeOK
<1>2. ~ \E t \in DOMAIN claim : claim[t] = r
  BY AcquireType DEF FreshRun
<1>3. CASE r \in OpenRuns(LeaseRanOut(c))
  <2>1. runs'[r] = Ended(runs[r], "failed", "lease_expired")
    BY <1>1, <1>2, <1>3 DEF AcquireDueTasks
  <2>2. "failed" \in RunStatus /\ "lease_expired" \in CompletionSource \cup SweepSource
    BY DEF RunStatus, SweepSource
  <2>3. runs'[r] \in RunRow /\ runs'[r].task = runs[r].task
    BY <1>1, <2>1, <2>2, EndedType
  <2>4. runs[r].status = "running"
    BY <1>3 DEF OpenRuns
  <2> QED
    BY <2>3, <2>4, NullAssumption
<1>4. CASE r \notin OpenRuns(LeaseRanOut(c))
  BY <1>1, <1>2, <1>4 DEF AcquireDueTasks, Recorded
<1> QED
  BY <1>3, <1>4

(* A completion touches no run that has ended.                              *)
LEMMA CompleteMonotone ==
  ASSUME TypeOK, NEW t \in Task, NEW rid, NEW st, NEW d, NEW th,
         NEW src \in CompletionSource, NEW c, CompleteRun(t, rid, st, d, th, src, c)
  PROVE  /\ RunsMonotone
         /\ EffectiveRun(t, rid) \in OpenRuns({t})
         /\ runs'[EffectiveRun(t, rid)].status # "running"
         /\ runs'[EffectiveRun(t, rid)].source = src
         /\ \A r \in Run : r # EffectiveRun(t, rid) => runs'[r] = runs[r]
<1> DEFINE r0 == EffectiveRun(t, rid)
<1>1. r0 \in OpenRuns({t}) /\ r0 \in Run /\ runs[r0] \in RunRow /\ runs[r0].task = t
  BY OpenRunIsRow DEF CompleteRun
<1>2. runs' = [runs EXCEPT ![r0] = Ended(runs[r0], RunOutcome(tasks[t], st), src)]
  BY DEF CompleteRun
<1>3. RunOutcome(tasks[t], st) \in RunStatus /\ RunOutcome(tasks[t], st) # "running"
  BY DEF RunOutcome, RunStatus
<1>4. /\ Ended(runs[r0], RunOutcome(tasks[t], st), src) \in RunRow
      /\ Ended(runs[r0], RunOutcome(tasks[t], st), src).task = runs[r0].task
      /\ Ended(runs[r0], RunOutcome(tasks[t], st), src).status # "running"
      /\ Ended(runs[r0], RunOutcome(tasks[t], st), src).source = src
  BY <1>1, <1>3, EndedType
<1> HIDE DEF r0
<1>5. runs'[r0] = Ended(runs[r0], RunOutcome(tasks[t], st), src)
        /\ \A r \in Run : r # r0 => runs'[r] = runs[r]
  BY <1>1, <1>2 DEF TypeOK
<1>6. runs[r0].status = "running"
  BY <1>1 DEF OpenRuns
<1>7. RunsMonotone
  BY <1>4, <1>5, <1>6, NullAssumption DEF RunsMonotone, Recorded
<1> QED
  BY <1>1, <1>4, <1>5, <1>7 DEF r0

(* A failed preflight touches no run that has ended.                        *)
LEMMA AbortMonotone ==
  ASSUME TypeOK, NEW t \in Task, NEW st, AbortCurrentRun(t, st)
  PROVE  /\ RunsMonotone
         /\ \A r \in Run : \/ runs'[r] = runs[r]
                           \/ r = tasks[t].current /\ runs'[r].status = "failed"
<1> SUFFICES ASSUME NEW r \in Run
             PROVE  /\ r \in Recorded => /\ runs'[r] # Null
                                         /\ runs'[r].task = runs[r].task
                                         /\ runs[r].status # "running" => runs'[r] = runs[r]
                    /\ \/ runs'[r] = runs[r]
                       \/ r = tasks[t].current /\ runs'[r].status = "failed"
  BY DEF RunsMonotone, Recorded
<1>1. CASE r = tasks[t].current /\ r \in Recorded /\ runs[r].status = "running"
  <2>1. runs'[r] = Ended(runs[r], "failed", "scheduler_preflight") /\ runs[r] \in RunRow
    BY <1>1 DEF AbortCurrentRun, TypeOK, Recorded
  <2>2. "failed" \in RunStatus /\ "scheduler_preflight" \in CompletionSource \cup SweepSource
    BY DEF RunStatus, SweepSource
  <2>3. runs'[r] \in RunRow /\ runs'[r].task = runs[r].task /\ runs'[r].status = "failed"
    BY <2>1, <2>2, EndedType
  <2> QED
    BY <1>1, <2>3, NullAssumption
<1>2. CASE ~(r = tasks[t].current /\ r \in Recorded /\ runs[r].status = "running")
  BY <1>2 DEF AbortCurrentRun, Recorded
<1> QED
  BY <1>1, <1>2

(* No step of the store touches a run that has ended.                       *)
LEMMA RunsStep == TypeOK /\ [Next]_svars => RunsMonotone
<1> SUFFICES ASSUME TypeOK, [Next]_svars PROVE RunsMonotone
  OBVIOUS
<1>1. CASE UNCHANGED runs
  BY <1>1 DEF RunsMonotone, Recorded
<1>2. CASE \E p \in Proc : Sweeps(p)
  <2>1. ASSUME NEW p \in Proc, NEW c \in Stamp, ExpireRuns(p, c) PROVE RunsMonotone
    BY <2>1, FailRunsMonotone DEF ExpireRuns, SweepSource
  <2> QED
    BY <1>1, <1>2, <2>1 DEF Sweeps, ExpireTasks, AbandonSweep
<1>3. CASE Acquire
  BY <1>3, AcquireMonotone DEF Acquire
<1>4. CASE \E t \in Task : End(t)
  <2>1. PICK t \in Task : End(t)
    BY <1>4
  <2>2. CASE AbortCurrentRun(t, "paused")
    BY <2>2, AbortMonotone
  <2>3. ASSUME NEW rid \in Run \cup {Null}, NEW st \in Reported, NEW d \in Delays,
               NEW th \in Reports, NEW src \in CompletionSource, NEW c \in Stamp,
               CompleteIteration(t, rid, st, d, th, src, c)
        PROVE  RunsMonotone
    BY <1>1, <2>3, CompleteMonotone
       DEF CompleteIteration, CompleteAgain, CompleteBare, svars
  <2> QED
    BY <2>1, <2>2, <2>3 DEF End
<1>5. CASE \E t \in Task : Edit(t)
  BY <1>1, <1>5 DEF Edit, CreateTask, UpdateStatus, RequestCancel, BindTaskThread,
                    ReplaceTaskThread
<1> QED
  BY <1>1, <1>2, <1>3, <1>4, <1>5 DEF Next, Tick, OpenStore, svars

(* A run row is never rewritten once its run has ended: whatever the order  *)
(* in which completions, expiry, lost leases and aborts reach it.           *)
THEOREM RunsEndOnce == Spec => RunEndsOnce
<1>1. TypeOK /\ [Next]_svars => RunsMonotone
  BY RunsStep
<1> QED
  BY <1>1, Typing, PTL DEF Spec, RunEndsOnce

-----------------------------------------------------------------------------
(* Coherent rows *)

RowOK(row) ==
  /\ row.status = "running" <=> row.current # Null
  /\ row.status = "running" <=> row.lease # Null
  /\ row.bound /\ Current \notin Reports => row.thread # Current

RowsOK == \A t \in Stored : RowOK(tasks[t])

(* Coherent rows are exactly the two properties about rows.                 *)
LEMMA RowsOKParts == RowsOK <=> LeaseConsistent /\ BoundIsConcrete
BY DEF RowsOK, RowOK, LeaseConsistent, BoundIsConcrete

(* A row that ends up not running, with no run and no lease, is coherent.   *)
LEMMA RestingOK ==
  ASSUME NEW row, row.status # "running", row.current = Null, row.lease = Null,
         row.bound /\ Current \notin Reports => row.thread # Current
  PROVE  RowOK(row)
BY DEF RowOK

(* Releasing a task leaves a coherent row.                                  *)
LEMMA ReleaseOK ==
  ASSUME NEW row \in TaskRow, NEW st \in Status, st # "running", RowOK(row)
  PROVE  RowOK(Release(row, st))
<1>1. row.bound /\ Current \notin Reports => row.thread # Current
  BY DEF RowOK
<1> QED
  BY <1>1, ReleaseType, RestingOK

(* A completion leaves a coherent row.                                      *)
LEMMA CompletedOK ==
  ASSUME NEW t \in Task, tasks[t] \in TaskRow, NEW st \in Reported,
         NEW d \in Delays, NEW th \in Reports, NEW c \in Nat,
         RowOK(tasks[t])
  PROVE  RowOK(CompletedRow(t, st, d, th, c))
<1> DEFINE row == CompletedRow(t, st, d, th, c)
<1>1. row.status # "running" /\ row.current = Null /\ row.lease = Null
  BY CompletedType, StatusAfter
<1>2. row.bound = tasks[t].bound /\ row.thread \in {tasks[t].thread} \cup (Reports \cap (Thread \cup {Current}))
  BY CompletedType
<1>3. row.bound /\ Current \notin Reports => row.thread # Current
  BY <1>2, ConstantsAssumption DEF RowOK
<1> HIDE DEF row
<1>4. RowOK(row)
  BY <1>1, <1>3, RestingOK
<1> QED
  BY <1>4 DEF row

(* Claiming a task leaves a coherent row.                                   *)
LEMMA ClaimedOK ==
  ASSUME NEW row \in TaskRow, NEW r \in Run, NEW c \in Nat, RowOK(row)
  PROVE  RowOK(Claimed(row, r, c))
<1>1. /\ Claimed(row, r, c).status = "running"
      /\ Claimed(row, r, c).current = r
      /\ Claimed(row, r, c).lease = c + Lease
      /\ Claimed(row, r, c).bound = row.bound
      /\ Claimed(row, r, c).thread = row.thread
  BY DEF Claimed, TaskRow
<1>2. r # Null /\ c + Lease # Null
  BY ConstantsAssumption
<1> QED
  BY <1>1, <1>2 DEF RowOK

(* The operations that create or edit a task keep rows coherent.            *)
LEMMA EditRows ==
  ASSUME TypeOK, RowsOK, NEW t \in Task, Edit(t)
  PROVE  RowsOK'
<1>1. ASSUME NEW args \in CreateArgs, NEW th \in Thread \cup {Current}, NEW c \in Stamp,
             CreateTask(t, args, th, c)
      PROVE  RowsOK'
  <2>1. c \in Nat
    BY DEF Stamp
  <2>2. RowOK(NewTask(args, th, c))
    BY DEF NewTask, RowOK
  <2> QED
    BY <1>1, <2>2 DEF CreateTask, RowsOK, Stored, TypeOK
<1>2. ASSUME NEW st \in Settable, UpdateStatus(t, st)
      PROVE  RowsOK'
  <2>1. RowOK(Updated(tasks[t], st))
    BY <1>2, StoredRow, ReleaseOK DEF UpdateStatus, Updated, Settable, Status, RowsOK
  <2> QED
    BY <1>2, <2>1 DEF UpdateStatus, RowsOK, Stored, TypeOK
<1>3. ASSUME RequestCancel(t)
      PROVE  RowsOK'
  <2> DEFINE rel == Release(tasks[t], "cancelled")
  <2>1. tasks[t] \in TaskRow /\ RowOK(tasks[t])
    BY <1>3, StoredRow DEF RequestCancel, RowsOK
  <2>2. RowOK([tasks[t] EXCEPT !.cancel = TRUE])
    BY <2>1 DEF RowOK, TaskRow
  <2>3. rel \in TaskRow /\ RowOK(rel)
    BY <2>1, ReleaseType, ReleaseOK DEF Status
  <2> HIDE DEF rel
  <2>4. RowOK([rel EXCEPT !.cancel = FALSE])
    BY <2>3 DEF RowOK, TaskRow
  <2>5. RowOK([Release(tasks[t], "cancelled") EXCEPT !.cancel = FALSE])
    BY <2>4 DEF rel
  <2> QED
    BY <1>3, <2>2, <2>5 DEF RequestCancel, RowsOK, Stored, TypeOK
<1>4. ASSUME NEW th \in Thread, NEW resume \in BOOLEAN, BindTaskThread(t, th, resume)
      PROVE  RowsOK'
  <2> DEFINE st  == IF resume /\ tasks[t].status = "paused" THEN "active" ELSE tasks[t].status
             row == [tasks[t] EXCEPT !.thread = th, !.bound = TRUE, !.status = st]
  <2>1. tasks[t] \in TaskRow /\ RowOK(tasks[t])
    BY <1>4, StoredRow DEF BindTaskThread, RowsOK
  <2>2. st = "running" <=> tasks[t].status = "running"
    OBVIOUS
  <2>3. th # Current
    BY ConstantsAssumption
  <2>4. tasks' = [tasks EXCEPT ![t] = row]
    BY <1>4 DEF BindTaskThread
  <2> HIDE DEF st
  <2>5. RowOK(row)
    BY <2>1, <2>2, <2>3 DEF RowOK, TaskRow
  <2> HIDE DEF row
  <2> QED
    BY <1>4, <2>4, <2>5 DEF BindTaskThread, RowsOK, Stored, TypeOK
<1>5. ASSUME NEW th \in Thread, ReplaceTaskThread(t, th)
      PROVE  RowsOK'
  <2>1. tasks[t] \in TaskRow /\ RowOK(tasks[t]) /\ th # Current
    BY <1>5, StoredRow, ConstantsAssumption DEF ReplaceTaskThread, RowsOK
  <2>2. RowOK([tasks[t] EXCEPT !.thread = th, !.bound = TRUE])
    BY <2>1 DEF RowOK, TaskRow
  <2> QED
    BY <1>5, <2>2 DEF ReplaceTaskThread, RowsOK, Stored, TypeOK
<1> QED
  BY <1>1, <1>2, <1>3, <1>4, <1>5 DEF Edit

(* Either statement of an expiry keeps rows coherent.                       *)
LEMMA SweepsRows ==
  ASSUME TypeOK, RowsOK, NEW p \in Proc, Sweeps(p)
  PROVE  RowsOK'
<1>1. CASE ExpireTasks(p)
  <2>1. ASSUME NEW t \in Stored
        PROVE  RowOK(Release(tasks[t], "expired"))
    BY StoredRow, ReleaseOK DEF Status, RowsOK
  <2> QED
    BY <1>1, <2>1 DEF ExpireTasks, RowsOK, Stored, PastExpiry, TypeOK
<1>2. CASE UNCHANGED tasks
  BY <1>2 DEF RowsOK, Stored
<1> QED
  BY <1>1, <1>2 DEF Sweeps, ExpireRuns, AbandonSweep

(* acquire_due_tasks keeps rows coherent.                                   *)
LEMMA AcquireRows ==
  ASSUME TypeOK, RowsOK, NEW c \in Stamp, NEW limit, NEW th, NEW claim,
         AcquireDueTasks(claim, c, limit, th)
  PROVE  RowsOK'
<1>1. c \in Nat
  BY DEF Stamp
<1>2. ASSUME NEW t \in Task, tasks'[t] # Null
      PROVE  RowOK(tasks'[t])
  <2>1. CASE t \in DOMAIN claim
    <3>1. tasks[t] \in TaskRow /\ RowOK(tasks[t])
      BY <2>1, AcquireType, StoredRow DEF Due, RowsOK
    <3>2. claim[t] \in Run
      BY <2>1, AcquireType DEF FreshRun
    <3>3. tasks'[t] = Claimed(tasks[t], claim[t], c)
      BY <2>1 DEF AcquireDueTasks
    <3> QED
      BY <1>1, <3>1, <3>2, <3>3, ClaimedOK
  <2>2. CASE t \notin DOMAIN claim /\ t \in LeaseRanOut(c)
    <3>1. tasks[t] \in TaskRow /\ RowOK(tasks[t])
      BY <2>2, StoredRow DEF LeaseRanOut, RowsOK
    <3>2. tasks'[t] = Release(tasks[t], "failed")
      BY <2>2 DEF AcquireDueTasks
    <3> QED
      BY <3>1, <3>2, ReleaseOK DEF Status
  <2>3. CASE t \notin DOMAIN claim /\ t \notin LeaseRanOut(c)
    BY <1>2, <2>3 DEF AcquireDueTasks, RowsOK, Stored
  <2> QED
    BY <2>1, <2>2, <2>3
<1> QED
  BY <1>2 DEF RowsOK, Stored

(* Completing or aborting an iteration keeps rows coherent.                 *)
LEMMA EndRows ==
  ASSUME TypeOK, RowsOK, NEW t \in Task, End(t)
  PROVE  RowsOK'
<1>1. ASSUME NEW st \in Reported, NEW d \in Delays, NEW th \in Reports,
             NEW c \in Stamp, t \in Stored,
             tasks' = [tasks EXCEPT ![t] = CompletedRow(t, st, d, th, c)]
      PROVE  RowsOK'
  <2>1. c \in Nat /\ tasks[t] \in TaskRow /\ RowOK(tasks[t])
    BY <1>1, StoredRow DEF Stamp, RowsOK
  <2>2. RowOK(CompletedRow(t, st, d, th, c))
    BY <2>1, CompletedOK
  <2> QED
    BY <1>1, <2>2 DEF RowsOK, Stored, TypeOK
<1>2. CASE AbortCurrentRun(t, "paused")
  <2>1. RowOK(Release(tasks[t], "paused"))
    BY <1>2, StoredRow, ReleaseOK DEF AbortCurrentRun, Status, RowsOK
  <2> QED
    BY <1>2, <2>1 DEF AbortCurrentRun, RowsOK, Stored, TypeOK
<1>3. ASSUME NEW rid \in Run \cup {Null}, NEW st \in Reported, NEW d \in Delays,
             NEW th \in Reports, NEW src \in CompletionSource, NEW c \in Stamp,
             CompleteIteration(t, rid, st, d, th, src, c)
      PROVE  RowsOK'
  <2>1. CASE CompleteAgain(t, rid)
    BY <2>1 DEF CompleteAgain, svars, RowsOK, Stored
  <2>2. CASE CompleteRun(t, rid, st, d, th, src, c) \/ CompleteBare(t, st, d, th, c)
    BY <1>1, <2>2 DEF CompleteRun, CompleteBare
  <2> QED
    BY <1>3, <2>1, <2>2 DEF CompleteIteration
<1> QED
  BY <1>2, <1>3 DEF End

(* Every step of the store keeps rows coherent.                             *)
LEMMA RowsStep == TypeOK /\ RowsOK /\ [Next]_svars => RowsOK'
<1> SUFFICES ASSUME TypeOK, RowsOK, [Next]_svars PROVE RowsOK'
  OBVIOUS
<1>1. CASE Tick
  BY <1>1 DEF Tick, RowsOK, Stored
<1>2. CASE OpenStore
  <2>1. ASSUME NEW t \in Stored, tasks[t].thread # Current
        PROVE  RowOK([tasks[t] EXCEPT !.bound = TRUE])
    BY <2>1, StoredRow DEF RowsOK, RowOK, TaskRow
  <2> QED
    BY <1>2, <2>1 DEF OpenStore, RowsOK, Stored, TypeOK
<1>3. CASE \E t \in Task : Edit(t)
  BY <1>3, EditRows
<1>4. CASE \E p \in Proc : Sweeps(p)
  BY <1>4, SweepsRows
<1>5. CASE Acquire
  BY <1>5, AcquireRows DEF Acquire
<1>6. CASE \E t \in Task : End(t)
  BY <1>6, EndRows
<1>7. CASE UNCHANGED svars
  BY <1>7 DEF svars, RowsOK, Stored
<1> QED
  BY <1>1, <1>2, <1>3, <1>4, <1>5, <1>6, <1>7 DEF Next

(* The status, run id and lease of a row always agree, and a bound task has *)
(* a concrete thread.                                                       *)
THEOREM RowsCoherent == Spec => [](LeaseConsistent /\ BoundIsConcrete)
<1>1. Init => TypeOK /\ RowsOK
  BY DEF Init, TypeOK, RowsOK, Stored
<1>2. TypeOK /\ RowsOK /\ [Next]_svars => (TypeOK /\ RowsOK)'
  BY TypeStep, RowsStep
<1>3. RowsOK => LeaseConsistent /\ BoundIsConcrete
  BY RowsOKParts
<1> QED
  BY <1>1, <1>2, <1>3, PTL DEF Spec

(* A bound task has a concrete thread, whichever writer of thread_id came    *)
(* last, as long as nobody reports the placeholder.                          *)
THEOREM BindingsConcrete == Spec => []BoundIsConcrete
BY RowsCoherent, PTL

-----------------------------------------------------------------------------
(* Ownership of open runs *)

Ownership == CurrentRunOwned /\ OrphansExplained

(* A sweep in progress carries a timestamp the clock has reached.           *)
SweepsPast == \A p \in Proc : sweep[p] # Null => sweep[p] <= now

(* No step lets a sweep in progress run ahead of the clock.                 *)
LEMMA SweepsPastStep == TypeOK /\ SweepsPast /\ [Next]_svars => SweepsPast'
<1> SUFFICES ASSUME TypeOK, SweepsPast, [Next]_svars, NEW q \in Proc, sweep'[q] # Null
             PROVE  sweep'[q] <= now'
  BY DEF SweepsPast
<1>1. CASE UNCHANGED <<sweep, now>>
  BY <1>1 DEF SweepsPast
<1>2. CASE Tick
  BY <1>2 DEF Tick, SweepsPast, TypeOK
<1>3. CASE \E p \in Proc : Sweeps(p)
  <2>1. ASSUME NEW p \in Proc, NEW c \in Stamp, ExpireRuns(p, c) PROVE sweep'[q] <= now'
    BY <2>1 DEF ExpireRuns, Stamp, SweepsPast, TypeOK
  <2>2. ASSUME NEW p \in Proc, ExpireTasks(p) \/ AbandonSweep(p) PROVE sweep'[q] <= now'
    BY <2>2 DEF ExpireTasks, AbandonSweep, SweepsPast, TypeOK
  <2> QED
    BY <1>3, <2>1, <2>2 DEF Sweeps
<1>4. ASSUME NEW t \in Task, Edit(t) PROVE UNCHANGED <<sweep, now>>
  BY <1>4 DEF Edit, CreateTask, UpdateStatus, RequestCancel, BindTaskThread, ReplaceTaskThread
<1>5. ASSUME NEW t \in Task, End(t) PROVE UNCHANGED <<sweep, now>>
  BY <1>5 DEF End, CompleteIteration, CompleteAgain, CompleteRun, CompleteBare,
              AbortCurrentRun, svars
<1>6. CASE OpenStore \/ Acquire \/ UNCHANGED svars
  BY <1>1, <1>6 DEF OpenStore, Acquire, AcquireDueTasks, svars
<1> QED
  BY <1>1, <1>2, <1>3, <1>4, <1>5, <1>6 DEF Next

(* What a step that opens no run owes: it may take runs away from their     *)
(* tasks only if it ends them, records them as detached, or the task is     *)
(* past its expiry, and it may end the run of a task that keeps it only in  *)
(* the last case.                                                           *)
LEMMA OwnershipKept ==
  ASSUME TypeOK, TypeOK', Ownership, RunsMonotone,
         \A t \in Stored :
            /\ t \in Stored'
            /\ tasks'[t].expires = tasks[t].expires
            /\ tasks'[t].current \in {Null, tasks[t].current},
         \A t \in Stored' : t \notin Stored => tasks'[t].current = Null,
         now <= now', detached \subseteq detached',
         \A r \in Recorded' : runs'[r].status = "running" =>
                               r \in Recorded /\ runs[r].status = "running",
         \A t \in Stored : tasks'[t].current # Null =>
            \/ runs'[tasks[t].current] = runs[tasks[t].current]
            \/ tasks[t].expires <= now',
         \A t \in Stored : tasks[t].current # Null /\ tasks'[t].current = Null =>
            \/ runs'[tasks[t].current].status # "running"
            \/ tasks[t].current \in detached'
            \/ tasks[t].expires <= now'
  PROVE  Ownership'
<1>1. \A t \in Stored : tasks[t].expires \in Nat
  BY StoredRow DEF TaskRow
<1>2. now \in Nat /\ now' \in Nat
  BY DEF TypeOK
<1>3. CurrentRunOwned'
  <2> SUFFICES ASSUME NEW t \in Stored', tasks'[t].current # Null
               PROVE  /\ tasks'[t].current \in Recorded'
                      /\ runs'[tasks'[t].current].task = t
                      /\ \/ runs'[tasks'[t].current].status = "running"
                         \/ tasks'[t].expires <= now'
    BY DEF CurrentRunOwned
  <2>1. t \in Stored /\ tasks'[t].current = tasks[t].current
    OBVIOUS
  <2>2. tasks[t].current \in Recorded /\ runs[tasks[t].current].task = t
        /\ (runs[tasks[t].current].status = "running" \/ tasks[t].expires <= now)
    BY <2>1 DEF Ownership, CurrentRunOwned
  <2>3. tasks[t].current \in Recorded' /\ runs'[tasks[t].current].task = t
    <3>1. /\ tasks[t].current \in Run
          /\ runs'[tasks[t].current] # Null
          /\ runs'[tasks[t].current].task = runs[tasks[t].current].task
      BY <2>2 DEF RunsMonotone, Recorded
    <3> QED
      BY <2>2, <3>1 DEF Recorded
  <2> QED
    BY <1>1, <1>2, <2>1, <2>2, <2>3
<1>4. OrphansExplained'
  <2> SUFFICES ASSUME NEW r \in OpenRuns(Task)'
               PROVE  /\ runs'[r].task \in Stored'
                      /\ \/ tasks'[runs'[r].task].current = r
                         \/ r \in detached'
                         \/ tasks'[runs'[r].task].expires <= now'
    BY DEF OrphansExplained
  <2> DEFINE t == runs[r].task
  <2>1. r \in OpenRuns(Task) /\ runs'[r].task = t
    <3>1. r \in Recorded' /\ runs'[r].status = "running"
      BY DEF OpenRuns
    <3>2. r \in Recorded /\ runs[r].status = "running"
      BY <3>1
    <3>3. runs[r] \in RunRow
      BY <3>2 DEF TypeOK, Recorded
    <3> QED
      BY <3>2, <3>3 DEF OpenRuns, RunsMonotone, RunRow
  <2>2. t \in Stored /\ (tasks[t].current = r \/ r \in detached \/ tasks[t].expires <= now)
    BY <2>1 DEF Ownership, OrphansExplained
  <2>3. runs'[r].status = "running" /\ r # Null
    BY NullAssumption, ConstantsAssumption DEF OpenRuns, Recorded
  <2> QED
    BY <1>1, <1>2, <2>1, <2>2, <2>3
<1> QED
  BY <1>3, <1>4 DEF Ownership

(* acquire_due_tasks keeps the ownership of open runs: it fails the runs    *)
(* of the tasks it releases, and gives each task it claims a new one.       *)
LEMMA AcquireOwnership ==
  ASSUME TypeOK, TypeOK', RowsOK, Ownership,
         NEW c \in Stamp, NEW limit, NEW th, NEW claim,
         AcquireDueTasks(claim, c, limit, th)
  PROVE  Ownership'
<1>1. /\ DOMAIN claim \subseteq Stored
      /\ \A t \in DOMAIN claim : claim[t] \in FreshRun /\ tasks[t].status = "active"
      /\ \A t, u \in DOMAIN claim : claim[t] = claim[u] => t = u
  BY AcquireType DEF Due
<1>2. /\ \A t \in DOMAIN claim : tasks'[t] = Claimed(tasks[t], claim[t], c)
      /\ \A t \in Task : t \notin DOMAIN claim /\ t \in LeaseRanOut(c) =>
                            tasks'[t] = Release(tasks[t], "failed")
      /\ \A t \in Task : t \notin DOMAIN claim /\ t \notin LeaseRanOut(c) =>
                            tasks'[t] = tasks[t]
  BY <1>1 DEF AcquireDueTasks, Stored
<1>3. \A t \in DOMAIN claim : runs'[claim[t]] = NewRun(t)
  <2> SUFFICES ASSUME NEW t \in DOMAIN claim PROVE runs'[claim[t]] = NewRun(t)
    OBVIOUS
  <2>1. (CHOOSE u \in DOMAIN claim : claim[u] = claim[t]) = t
    BY <1>1
  <2> QED
    BY <1>1, <2>1 DEF AcquireDueTasks, FreshRun
<1>4. \A r \in Recorded :
        runs'[r] = IF r \in OpenRuns(LeaseRanOut(c))
                   THEN Ended(runs[r], "failed", "lease_expired") ELSE runs[r]
  BY <1>1 DEF AcquireDueTasks, FreshRun, Recorded
<1>5. \A r \in Recorded' : r \in Recorded \/ \E t \in DOMAIN claim : claim[t] = r
  BY DEF AcquireDueTasks, Recorded, OpenRuns
<1>6. now' = now /\ detached' = detached
  BY DEF AcquireDueTasks
<1>7. \A t \in Stored : t \in Stored' /\ tasks'[t].expires = tasks[t].expires
  <2> SUFFICES ASSUME NEW t \in Stored
               PROVE  tasks'[t] # Null /\ tasks'[t].expires = tasks[t].expires
    BY DEF Stored
  <2>1. t \in Task /\ tasks[t] \in TaskRow /\ tasks[t] # Null
    BY StoredRow DEF Stored
  <2>2. CASE t \in DOMAIN claim
    <3>1. tasks'[t] = Claimed(tasks[t], claim[t], c)
      BY <1>2, <2>2
    <3>2. Claimed(tasks[t], claim[t], c).expires = tasks[t].expires
      BY <2>1 DEF Claimed, TaskRow
    <3>3. tasks'[t] # Null
      <4>1. tasks[t] \in TaskRow /\ claim[t] \in Run /\ c + Lease \in Nat
        BY <1>1, <2>1, <2>2, ConstantsAssumption DEF FreshRun, Stamp
      <4>2. Claimed(tasks[t], claim[t], c) \in TaskRow
        BY <4>1 DEF Claimed, TaskRow, Status
      <4> QED
        BY <3>1, <4>2, NullAssumption
    <3> QED
      BY <3>1, <3>2, <3>3
  <2>3. CASE t \notin DOMAIN claim
    <3>1. "failed" \in Status
      BY DEF Status
    <3>2. Release(tasks[t], "failed") \in TaskRow
            /\ Release(tasks[t], "failed").expires = tasks[t].expires
      BY <2>1, <3>1, ReleaseType
    <3> QED
      BY <1>2, <2>1, <2>3, <3>2, NullAssumption
  <2> QED
    BY <2>2, <2>3
<1>8. Stored' \subseteq Stored
  BY <1>1, <1>2 DEF Stored, LeaseRanOut
<1>9. \A t \in Stored : tasks[t].current # Null => t \notin DOMAIN claim
  BY <1>1 DEF RowsOK, RowOK
<1>10. CurrentRunOwned'
  <2> SUFFICES ASSUME NEW t \in Stored', tasks'[t].current # Null
               PROVE  /\ tasks'[t].current \in Recorded'
                      /\ runs'[tasks'[t].current].task = t
                      /\ \/ runs'[tasks'[t].current].status = "running"
                         \/ tasks'[t].expires <= now'
    BY DEF CurrentRunOwned
  <2>1. t \in Stored /\ t \in Task /\ tasks[t] \in TaskRow
    BY <1>8, StoredRow
  <2>2. CASE t \in DOMAIN claim
    <3>1. tasks'[t].current = claim[t] /\ claim[t] \in Run
      BY <1>1, <1>2, <2>1, <2>2 DEF Claimed, TaskRow, FreshRun
    <3>2. runs'[claim[t]] = NewRun(t) /\ NewRun(t) \in RunRow
      BY <1>3, <2>1, <2>2 DEF NewRun, RunRow, RunStatus
    <3> QED
      BY <3>1, <3>2, NullAssumption DEF NewRun, Recorded
  <2>3. CASE t \notin DOMAIN claim
    <3>1. t \notin LeaseRanOut(c)
      <4>1. "failed" \in Status
        BY DEF Status
      <4>2. Release(tasks[t], "failed").current = Null
        BY <2>1, <4>1, ReleaseType
      <4> QED
        BY <1>2, <2>1, <2>3, <4>2
    <3>2. tasks'[t] = tasks[t]
      BY <1>2, <2>1, <2>3, <3>1
    <3>3. tasks[t].current \in Recorded /\ runs[tasks[t].current].task = t
          /\ (runs[tasks[t].current].status = "running" \/ tasks[t].expires <= now)
      BY <2>1, <3>2 DEF Ownership, CurrentRunOwned
    <3>4. runs'[tasks[t].current] = runs[tasks[t].current]
      BY <1>4, <3>1, <3>3 DEF OpenRuns
    <3> QED
      BY <1>6, <3>2, <3>3, <3>4 DEF Recorded
  <2> QED
    BY <2>2, <2>3
<1>11. OrphansExplained'
  <2> SUFFICES ASSUME NEW r \in OpenRuns(Task)'
               PROVE  /\ runs'[r].task \in Stored'
                      /\ \/ tasks'[runs'[r].task].current = r
                         \/ r \in detached'
                         \/ tasks'[runs'[r].task].expires <= now'
    BY DEF OrphansExplained
  <2>1. r \in Recorded' /\ runs'[r].status = "running"
    BY DEF OpenRuns
  <2>2. CASE \E t \in DOMAIN claim : claim[t] = r
    <3>1. PICK t \in DOMAIN claim : claim[t] = r
      BY <2>2
    <3>2. runs'[r].task = t /\ t \in Stored
      <4>1. runs'[r] = NewRun(t)
        BY <1>3, <3>1
      <4>2. NewRun(t).task = t
        BY DEF NewRun
      <4> QED
        BY <1>1, <4>1, <4>2
    <3>3. tasks'[t].current = r
      BY <1>2, <3>1, <3>2, StoredRow DEF Claimed, TaskRow
    <3> QED
      BY <1>7, <3>2, <3>3
  <2>3. CASE r \in Recorded
    <3> DEFINE t == runs[r].task
    <3>1. runs[r] \in RunRow
      BY <2>3 DEF TypeOK, Recorded
    <3>2. Ended(runs[r], "failed", "lease_expired").status = "failed"
      BY <3>1 DEF Ended, RunRow
    <3>3. r \notin OpenRuns(LeaseRanOut(c)) /\ runs'[r] = runs[r]
      BY <1>4, <2>1, <2>3, <3>2
    <3>4. r \in OpenRuns(Task) /\ t \notin LeaseRanOut(c)
      BY <2>1, <2>3, <3>1, <3>3 DEF OpenRuns, RunRow
    <3>5. t \in Stored /\ (tasks[t].current = r \/ r \in detached \/ tasks[t].expires <= now)
      BY <3>4 DEF Ownership, OrphansExplained
    <3>6. r # Null
      BY <2>3, ConstantsAssumption DEF Recorded
    <3>7. tasks[t].current = r => tasks'[t].current = r
      BY <1>2, <1>9, <3>4, <3>5, <3>6, StoredRow
    <3> QED
      BY <1>6, <1>7, <3>3, <3>5, <3>7
  <2> QED
    BY <1>5, <2>1, <2>2, <2>3
<1> QED
  BY <1>10, <1>11 DEF Ownership

(* A step that leaves the runs alone and takes no run from a task.          *)
LEMMA OwnershipIdle ==
  ASSUME TypeOK, TypeOK', Ownership, UNCHANGED runs,
         \A t \in Stored :
            /\ t \in Stored'
            /\ tasks'[t].expires = tasks[t].expires
            /\ \/ tasks'[t].current = tasks[t].current
               \/ /\ tasks'[t].current = Null
                  /\ \/ tasks[t].current = Null
                     \/ tasks[t].current \in detached'
                     \/ tasks[t].expires <= now',
         \A t \in Stored' : t \notin Stored => tasks'[t].current = Null,
         now <= now', detached \subseteq detached'
  PROVE  Ownership'
<1>1. RunsMonotone
  BY DEF RunsMonotone, Recorded
<1>2. \A r \in Recorded' : r \in Recorded
  BY DEF Recorded
<1> QED
  BY <1>1, <1>2, OwnershipKept

(* The operations that create or edit a task keep the ownership of open     *)
(* runs; update_status takes a run away and records it as detached.         *)
LEMMA EditOwnership ==
  ASSUME TypeOK, TypeOK', RowsOK, Ownership, NEW t \in Task, Edit(t)
  PROVE  Ownership'
<1>1. UNCHANGED <<runs, now>> /\ detached \subseteq detached' /\ now <= now'
  <2>1. UNCHANGED <<runs, now>> /\ detached \subseteq detached'
    BY DEF Edit, CreateTask, UpdateStatus, RequestCancel, BindTaskThread, ReplaceTaskThread
  <2> QED
    BY <2>1 DEF TypeOK
<1>2. \A u \in Stored : u \in Task /\ tasks[u] \in TaskRow
  BY StoredRow
<1>3. \A u \in Task : u # t => tasks'[u] = tasks[u]
  BY DEF Edit, CreateTask, UpdateStatus, RequestCancel, BindTaskThread, ReplaceTaskThread, TypeOK
<1>4. CASE \E args \in CreateArgs, th \in Thread \cup {Current}, c \in Stamp :
             CreateTask(t, args, th, c)
  <2>1. PICK args \in CreateArgs, th \in Thread \cup {Current}, c \in Stamp :
               CreateTask(t, args, th, c)
    BY <1>4
  <2>2. tasks'[t] = NewTask(args, th, c) /\ t \notin Stored
    BY <2>1 DEF CreateTask, TypeOK
  <2>3. tasks'[t].current = Null
    BY <2>2 DEF NewTask
  <2> QED
    BY <1>1, <1>2, <1>3, <2>2, <2>3, OwnershipIdle DEF Stored
<1>5. ASSUME t \in Stored, tasks'[t] # Null, tasks'[t].expires = tasks[t].expires,
             \/ tasks'[t].current = tasks[t].current
             \/ tasks'[t].current = Null /\ tasks[t].current \in {Null} \cup detached'
      PROVE  Ownership'
  BY <1>1, <1>2, <1>3, <1>5, OwnershipIdle DEF Stored
<1>6. CASE \E st \in Settable : UpdateStatus(t, st)
  <2>1. PICK st \in Settable : UpdateStatus(t, st)
    BY <1>6
  <2>2. st \in Status /\ tasks[t] \in TaskRow /\ t \in Stored
    BY <2>1, <1>2 DEF UpdateStatus, Settable, Status
  <2>3. tasks'[t] = Release(tasks[t], st)
    BY <2>1 DEF UpdateStatus, Updated, TypeOK
  <2>4. tasks'[t] # Null /\ tasks'[t].current = Null /\ tasks'[t].expires = tasks[t].expires
    BY <2>2, <2>3, ReleaseType, NullAssumption
  <2>5. tasks[t].current \in {Null} \cup detached'
    BY <2>1 DEF UpdateStatus
  <2> QED
    BY <1>5, <2>2, <2>4, <2>5
<1>7. CASE RequestCancel(t)
  <2> DEFINE rel == Release(tasks[t], "cancelled")
  <2>1. t \in Stored /\ tasks[t] \in TaskRow
    BY <1>2, <1>7 DEF RequestCancel
  <2>2. rel \in TaskRow /\ rel.current = Null /\ rel.expires = tasks[t].expires
    BY <2>1, ReleaseType DEF Status
  <2>3. tasks'[t] = IF tasks[t].status = "running" THEN [tasks[t] EXCEPT !.cancel = TRUE]
                    ELSE [rel EXCEPT !.cancel = FALSE]
    BY <1>7, <2>1 DEF RequestCancel, TypeOK
  <2> HIDE DEF rel
  <2>4. tasks'[t] # Null
    <3>1. /\ [tasks[t] EXCEPT !.cancel = TRUE] \in TaskRow
          /\ [rel EXCEPT !.cancel = FALSE] \in TaskRow
      BY <2>1, <2>2 DEF TaskRow
    <3> QED
      BY <2>3, <3>1, NullAssumption
  <2>5. tasks'[t].expires = tasks[t].expires
        /\ tasks'[t].current = (IF tasks[t].status = "running" THEN tasks[t].current ELSE Null)
    BY <2>1, <2>2, <2>3 DEF TaskRow
  <2>6. tasks[t].status # "running" => tasks[t].current = Null
    BY <2>1 DEF RowsOK, RowOK
  <2> QED
    BY <1>5, <2>1, <2>4, <2>5, <2>6
<1>8. ASSUME NEW th \in Thread, NEW resume \in BOOLEAN, BindTaskThread(t, th, resume)
      PROVE  Ownership'
  <2> DEFINE st  == IF resume /\ tasks[t].status = "paused" THEN "active" ELSE tasks[t].status
             row == [tasks[t] EXCEPT !.thread = th, !.bound = TRUE, !.status = st]
  <2>1. t \in Stored /\ tasks[t] \in TaskRow
    BY <1>2, <1>8 DEF BindTaskThread
  <2>2. st \in Status
    BY <2>1 DEF TaskRow, Status
  <2>3. tasks'[t] = row
    BY <1>8, <2>1 DEF BindTaskThread, TypeOK
  <2> HIDE DEF st
  <2>4. row \in TaskRow /\ row.expires = tasks[t].expires /\ row.current = tasks[t].current
    BY <2>1, <2>2 DEF TaskRow
  <2> HIDE DEF row
  <2> QED
    BY <1>5, <2>1, <2>3, <2>4, NullAssumption
<1>9. ASSUME NEW th \in Thread, ReplaceTaskThread(t, th)
      PROVE  Ownership'
  <2> DEFINE row == [tasks[t] EXCEPT !.thread = th, !.bound = TRUE]
  <2>1. t \in Stored /\ tasks[t] \in TaskRow
    BY <1>2, <1>9 DEF ReplaceTaskThread
  <2>2. tasks'[t] = row
    BY <1>9, <2>1 DEF ReplaceTaskThread, TypeOK
  <2>3. row \in TaskRow /\ row.expires = tasks[t].expires /\ row.current = tasks[t].current
    BY <2>1 DEF TaskRow
  <2> HIDE DEF row
  <2> QED
    BY <1>5, <2>1, <2>2, <2>3, NullAssumption
<1> QED
  BY <1>4, <1>6, <1>7, <1>8, <1>9 DEF Edit

(* Either statement of an expiry keeps the ownership of open runs, since    *)
(* it concerns only tasks past their expiry.                                *)
LEMMA SweepsOwnership ==
  ASSUME TypeOK, TypeOK', SweepsPast, Ownership, NEW p \in Proc, Sweeps(p)
  PROVE  Ownership'
<1>1. \A u \in Stored : u \in Task /\ tasks[u] \in TaskRow /\ tasks[u] # Null
  BY StoredRow DEF Stored
<1>2. CASE ExpireTasks(p)
  <2>1. now' = now /\ detached' = detached /\ runs' = runs
    BY <1>2 DEF ExpireTasks
  <2>2. Stored' = Stored
    BY <1>2, <1>1, TypeStep, ReleaseType, NullAssumption
       DEF ExpireTasks, Stored, PastExpiry, Status
  <2>3. ASSUME NEW u \in Stored
        PROVE  /\ tasks'[u].expires = tasks[u].expires
               /\ \/ tasks'[u].current = tasks[u].current
                  \/ tasks'[u].current = Null /\ u \in PastExpiry(sweep[p])
    BY <1>1, <1>2, ReleaseType DEF ExpireTasks, Status
  <2>4. ASSUME NEW u \in PastExpiry(sweep[p]) PROVE tasks[u].expires <= now
    <3>1. tasks[u].expires <= sweep[p] /\ tasks[u].expires \in Nat
      BY <1>1 DEF PastExpiry, TaskRow
    <3>2. sweep[p] \in Nat /\ sweep[p] <= now /\ now \in Nat
      BY <1>2 DEF ExpireTasks, SweepsPast, TypeOK
    <3> QED
      BY <3>1, <3>2
  <2>5. ASSUME NEW u \in Stored
        PROVE  /\ u \in Stored'
               /\ tasks'[u].expires = tasks[u].expires
               /\ \/ tasks'[u].current = tasks[u].current
                  \/ tasks'[u].current = Null /\ tasks[u].expires <= now'
    BY <2>1, <2>2, <2>3, <2>4
  <2>6. now <= now'
    BY <2>1 DEF TypeOK
  <2> QED
    BY <2>1, <2>2, <2>5, <2>6, OwnershipIdle
<1>3. ASSUME NEW c \in Stamp, ExpireRuns(p, c)
      PROVE  Ownership'
  <2>1. UNCHANGED <<tasks, now, detached>>
    BY <1>3 DEF ExpireRuns
  <2>2. RunsMonotone
    BY <1>3, FailRunsMonotone DEF ExpireRuns, SweepSource
  <2>3. \A r \in Run : runs'[r] = IF r \in OpenRuns(PastExpiry(c))
                                THEN Ended(runs[r], "failed", "expiry") ELSE runs[r]
    BY <1>3 DEF ExpireRuns, FailRunsOf
  <2>4. \A r \in OpenRuns(PastExpiry(c)) : runs[r] \in RunRow
    BY OpenRunIsRow
  <2>5. \A r \in OpenRuns(PastExpiry(c)) : Ended(runs[r], "failed", "expiry").status = "failed"
    BY <2>4 DEF Ended, RunRow
  <2>6. \A r \in Recorded' : runs'[r].status = "running" =>
                              r \in Recorded /\ runs[r].status = "running"
    BY <2>3, <2>5 DEF Recorded
  <2>7. \A r \in OpenRuns(PastExpiry(c)) : tasks[runs[r].task].expires <= c
    BY DEF OpenRuns, PastExpiry
  <2>8. c <= now /\ c \in Nat /\ now \in Nat
    BY DEF Stamp, TypeOK
  <2>9. \A u \in Stored : tasks[u].current # Null =>
          \/ runs'[tasks[u].current] = runs[tasks[u].current]
          \/ tasks[u].expires <= now
    <3> SUFFICES ASSUME NEW u \in Stored, tasks[u].current # Null
                 PROVE  \/ runs'[tasks[u].current] = runs[tasks[u].current]
                        \/ tasks[u].expires <= now
      OBVIOUS
    <3>1. tasks[u].current \in Run /\ runs[tasks[u].current].task = u
      BY DEF Ownership, CurrentRunOwned, Recorded
    <3>2. tasks[u].expires \in Nat
      BY <1>1 DEF TaskRow
    <3> QED
      BY <2>3, <2>7, <2>8, <3>1, <3>2
  <2> QED
    BY <2>1, <2>2, <2>6, <2>8, <2>9, OwnershipKept DEF Stored
<1>4. CASE AbandonSweep(p)
  BY <1>4, OwnershipIdle DEF AbandonSweep, Stored, TypeOK
<1> QED
  BY <1>2, <1>3, <1>4 DEF Sweeps

(* Completing or aborting an iteration keeps the ownership of open runs.    *)
LEMMA EndOwnership ==
  ASSUME TypeOK, TypeOK', Ownership, NEW t \in Task, End(t)
  PROVE  Ownership'
<1>1. \A u \in Stored : u \in Task /\ tasks[u] \in TaskRow /\ tasks[u] # Null
  BY StoredRow DEF Stored
<1>2. ASSUME NEW rid \in Run \cup {Null}, NEW st \in Reported, NEW d \in Delays,
             NEW th \in Reports, NEW src \in CompletionSource, NEW c \in Stamp,
             CompleteIteration(t, rid, st, d, th, src, c)
      PROVE  Ownership'
  <2> DEFINE row == CompletedRow(t, st, d, th, c)
  <2>1. CASE CompleteAgain(t, rid)
    BY <2>1 DEF CompleteAgain, svars, Ownership, CurrentRunOwned, OrphansExplained,
                Stored, Recorded, OpenRuns
  <2>2. CASE t \in Stored /\ tasks' = [tasks EXCEPT ![t] = row]
    <3>1. row \in TaskRow /\ row.current = Null /\ row.expires = tasks[t].expires
      BY <1>1, <2>2, CompletedType DEF Stamp
    <3> HIDE DEF row
    <3>2. /\ Stored' = Stored
          /\ \A u \in Stored : u # t => tasks'[u] = tasks[u]
          /\ tasks'[t].current = Null /\ tasks'[t].expires = tasks[t].expires
      BY <1>1, <2>2, <3>1, NullAssumption DEF Stored, TypeOK
    <3>3. CASE CompleteBare(t, st, d, th, c)
      <4>1. UNCHANGED runs /\ now <= now' /\ detached \subseteq detached'
        BY <3>3 DEF CompleteBare, TypeOK
      <4>2. tasks[t].current = Null
        BY <3>3 DEF CompleteBare
      <4> QED
        BY <2>2, <3>2, <4>1, <4>2, OwnershipIdle
    <3>4. CASE CompleteRun(t, rid, st, d, th, src, c)
      <4> DEFINE r0 == EffectiveRun(t, rid)
      <4>1. /\ RunsMonotone
            /\ r0 \in OpenRuns({t})
            /\ runs'[r0].status # "running"
            /\ \A r \in Run : r # r0 => runs'[r] = runs[r]
        BY <3>4, CompleteMonotone, ZenonT(60)
      <4>2. now' = now /\ detached' = detached \cup ({tasks[t].current} \ {Null, r0})
        BY <3>4 DEF CompleteRun
      <4> HIDE DEF r0
      <4>3. \A r \in Recorded' : runs'[r].status = "running" =>
                                  r \in Recorded /\ runs[r].status = "running"
        BY <4>1 DEF Recorded
      <4>4. \A u \in Stored : tasks'[u].current # Null => runs'[tasks[u].current] = runs[tasks[u].current]
        <5> SUFFICES ASSUME NEW u \in Stored, tasks'[u].current # Null
                     PROVE  runs'[tasks[u].current] = runs[tasks[u].current]
          OBVIOUS
        <5>1. u # t /\ tasks[u].current # Null
          BY <3>2
        <5>2. tasks[u].current \in Run /\ runs[tasks[u].current].task = u
          BY <5>1 DEF Ownership, CurrentRunOwned, Recorded
        <5>3. runs[r0].task = t
          BY <4>1 DEF OpenRuns
        <5> QED
          BY <4>1, <5>1, <5>2, <5>3
      <4>5. \A u \in Stored : tasks[u].current # Null /\ tasks'[u].current = Null =>
              \/ runs'[tasks[u].current].status # "running"
              \/ tasks[u].current \in detached'
        BY <3>2, <4>1, <4>2
      <4>6. now <= now' /\ detached \subseteq detached'
        BY <4>2 DEF TypeOK
      <4>7. \A u \in Stored :
              /\ u \in Stored'
              /\ tasks'[u].expires = tasks[u].expires
              /\ tasks'[u].current \in {Null, tasks[u].current}
        BY <3>2
      <4> QED
        BY <3>2, <4>1, <4>3, <4>4, <4>5, <4>6, <4>7, OwnershipKept
    <3> QED
      BY <1>2, <2>1, <3>3, <3>4 DEF CompleteIteration
  <2> QED
    BY <1>2, <2>1, <2>2 DEF CompleteIteration, CompleteRun, CompleteBare
<1>3. CASE AbortCurrentRun(t, "paused")
  <2> DEFINE row == Release(tasks[t], "paused")
  <2>1. t \in Stored /\ tasks' = [tasks EXCEPT ![t] = row] /\ now' = now /\ detached' = detached
    BY <1>3 DEF AbortCurrentRun
  <2>2. row \in TaskRow /\ row.current = Null /\ row.expires = tasks[t].expires
    BY <1>1, <2>1, ReleaseType DEF Status
  <2> HIDE DEF row
  <2>3. /\ Stored' = Stored
        /\ \A u \in Stored : u # t => tasks'[u] = tasks[u]
        /\ tasks'[t].current = Null /\ tasks'[t].expires = tasks[t].expires
    BY <1>1, <2>1, <2>2, NullAssumption DEF Stored, TypeOK
  <2>4. RunsMonotone
    BY <1>3, AbortMonotone
  <2>5. \A r \in Run :
          \/ runs'[r] = runs[r]
          \/ r = tasks[t].current /\ runs'[r].status = "failed"
    BY <1>3, AbortMonotone
  <2>6. tasks[t].current # Null =>
          \/ runs'[tasks[t].current].status # "running"
          \/ tasks[t].expires <= now
    <3>1. tasks[t].current # Null => tasks[t].current \in Run /\ tasks[t].current \in Recorded
      BY <2>1 DEF Ownership, CurrentRunOwned, Recorded
    <3>2. tasks[t].current # Null /\ runs[tasks[t].current].status = "running" =>
            runs'[tasks[t].current] = Ended(runs[tasks[t].current], "failed", "scheduler_preflight")
      BY <1>3, <3>1 DEF AbortCurrentRun
    <3>3. \A run \in RunRow : Ended(run, "failed", "scheduler_preflight").status = "failed"
      BY DEF Ended, RunRow
    <3>4. tasks[t].current # Null => runs[tasks[t].current] \in RunRow
      BY <3>1 DEF TypeOK, Recorded
    <3> QED
      BY <2>1, <3>1, <3>2, <3>3, <3>4 DEF Ownership, CurrentRunOwned, RunsMonotone
  <2>7. \A r \in Recorded' : runs'[r].status = "running" =>
                              r \in Recorded /\ runs[r].status = "running"
    BY <2>5 DEF Recorded
  <2>8. \A u \in Stored : tasks'[u].current # Null => runs'[tasks[u].current] = runs[tasks[u].current]
    <3> SUFFICES ASSUME NEW u \in Stored, tasks'[u].current # Null
                 PROVE  runs'[tasks[u].current] = runs[tasks[u].current]
      OBVIOUS
    <3>1. u # t /\ tasks[u].current # Null
      BY <2>3
    <3>2. tasks[u].current \in Run /\ runs[tasks[u].current].task = u
      BY <3>1 DEF Ownership, CurrentRunOwned, Recorded
    <3>3. tasks[t].current # tasks[u].current
      BY <2>1, <3>1, <3>2 DEF Ownership, CurrentRunOwned
    <3> QED
      BY <2>5, <3>2, <3>3
  <2>9. now <= now'
    BY <2>1 DEF TypeOK
  <2>10. \A u \in Stored : tasks'[u].current \in {Null, tasks[u].current}
    BY <2>3
  <2>11. \A u \in Stored : tasks[u].current # Null /\ tasks'[u].current = Null =>
            \/ runs'[tasks[u].current].status # "running"
            \/ tasks[u].current \in detached'
            \/ tasks[u].expires <= now'
    BY <2>1, <2>3, <2>6
  <2> QED
    BY <2>1, <2>3, <2>4, <2>7, <2>8, <2>9, <2>10, <2>11, OwnershipKept
<1> QED
  BY <1>2, <1>3 DEF End

(* Every step of the store keeps the ownership of open runs.                *)
LEMMA OwnershipStep ==
  TypeOK /\ RowsOK /\ SweepsPast /\ Ownership /\ [Next]_svars => Ownership'
<1> SUFFICES ASSUME TypeOK, RowsOK, SweepsPast, Ownership, [Next]_svars PROVE Ownership'
  OBVIOUS
<1>1. TypeOK'
  BY TypeStep
<1>2. CASE Tick
  <2>1. UNCHANGED <<tasks, runs, detached>> /\ now <= now'
    BY <1>2 DEF Tick, TypeOK
  <2> QED
    BY <1>1, <2>1, OwnershipIdle DEF Stored
<1>3. CASE OpenStore
  <2>1. UNCHANGED <<runs, now, detached>> /\ now <= now'
    BY <1>3 DEF OpenStore, TypeOK
  <2>2. \A t \in Stored :
          /\ [tasks[t] EXCEPT !.bound = TRUE] \in TaskRow
          /\ [tasks[t] EXCEPT !.bound = TRUE].expires = tasks[t].expires
          /\ [tasks[t] EXCEPT !.bound = TRUE].current = tasks[t].current
    BY StoredRow DEF TaskRow
  <2>3. \A t \in Stored :
          /\ tasks'[t] # Null
          /\ tasks'[t].expires = tasks[t].expires
          /\ tasks'[t].current = tasks[t].current
    BY <1>3, <2>2, NullAssumption DEF OpenStore, Stored
  <2>4. Stored' = Stored
    BY <1>3, <2>3 DEF OpenStore, Stored
  <2> QED
    BY <1>1, <2>1, <2>3, <2>4, OwnershipIdle
<1>4. CASE \E t \in Task : Edit(t)
  BY <1>1, <1>4, EditOwnership
<1>5. CASE \E p \in Proc : Sweeps(p)
  BY <1>1, <1>5, SweepsOwnership
<1>6. CASE Acquire
  BY <1>1, <1>6, AcquireOwnership DEF Acquire
<1>7. CASE \E t \in Task : End(t)
  BY <1>1, <1>7, EndOwnership
<1>8. CASE UNCHANGED svars
  BY <1>8 DEF svars, Ownership, CurrentRunOwned, OrphansExplained, Stored, Recorded, OpenRuns
<1> QED
  BY <1>2, <1>3, <1>4, <1>5, <1>6, <1>7, <1>8 DEF Next

(* The inductive invariant of the store.                                    *)
StoreInv == TypeOK /\ RowsOK /\ SweepsPast /\ Ownership

(* Whatever calls processes make in whatever order, the invariant holds.    *)
THEOREM StoreInvariant == Spec => []StoreInv
<1>1. Init => StoreInv
  BY DEF Init, StoreInv, TypeOK, RowsOK, SweepsPast, Ownership, CurrentRunOwned,
         OrphansExplained, Stored, Recorded, OpenRuns
<1>2. StoreInv /\ [Next]_svars => StoreInv'
  BY TypeStep, RowsStep, SweepsPastStep, OwnershipStep DEF StoreInv
<1> QED
  BY <1>1, <1>2, PTL DEF Spec

(* A running task's run is its own, and is open unless an expiry sweep is   *)
(* half done.                                                               *)
THEOREM CurrentRunsOwned == Spec => []CurrentRunOwned
<1>1. StoreInv => CurrentRunOwned
  BY DEF StoreInv, Ownership
<1> QED
  BY <1>1, StoreInvariant, PTL

(* An open run that is no task's current run was detached by update_status  *)
(* or an out-of-turn completion, or its task is past its expiry.            *)
THEOREM OpenRunsExplained == Spec => []OrphansExplained
<1>1. StoreInv => OrphansExplained
  BY DEF StoreInv, Ownership
<1> QED
  BY <1>1, StoreInvariant, PTL

=============================================================================
