-------------------------- MODULE LoopSystemProofs --------------------------
(* Proofs about LoopSystem, for every value of its constants: any number of *)
(* daemons, hooks, tasks and runs, any batch limits and any leases.         *)
EXTENDS LoopSystem, LoopLedgerProofs, SequenceTheorems

Busy == {"task", "running", "rebind", "report"}

(* What the processes know: the type of their state, with the facts that    *)
(* tie a daemon's place in its round to its batch and its result.           *)
Work ==
  /\ pc \in [Proc -> {"idle", "sweep", "acquire", "down"} \cup Busy]
  /\ batch \in [Daemon -> Seq(Snapshot)]
  /\ result \in [Daemon -> Result \cup {Null}]
  /\ turn \in [Run -> {"none", "live", "over"}]
  /\ \A d \in Daemon : pc[d] \in Busy => batch[d] # <<>>
  /\ \A d \in Daemon : pc[d] \in {"rebind", "report"} => result[d] \in Result
  /\ \A d \in Daemon : pc[d] = "rebind" => result[d].thread \in Thread
  /\ \A r \in Run : turn[r] # "none" => r \in Recorded

(* The runs of one batch are distinct, besides belonging to it alone.       *)
Hands ==
  /\ RunHasOneExecutor
  /\ \A d \in Daemon : \A i, j \in DOMAIN batch[d] :
       batch[d][i].run = batch[d][j].run => i = j

SystemInv == TypeOK /\ Work /\ Hands

(* The first snapshot of a batch.                                            *)
LEMMA JobFacts ==
  ASSUME Work, NEW d \in Daemon, pc[d] \in Busy
  PROVE  /\ batch[d] \in Seq(Snapshot)
         /\ batch[d] # <<>>
         /\ Len(batch[d]) \in Nat \ {0}
         /\ DOMAIN batch[d] = 1..Len(batch[d])
         /\ Job(d) = batch[d][1]
         /\ Job(d) \in Snapshot
         /\ Job(d).task \in Task
         /\ Job(d).run \in Run
<1>1. batch[d] \in Seq(Snapshot) /\ batch[d] # <<>>
  BY DEF Work
<1>2. Len(batch[d]) \in Nat \ {0} /\ DOMAIN batch[d] = 1..Len(batch[d])
  BY <1>1, EmptySeq, LenProperties
<1>3. Job(d) = batch[d][1]
  BY <1>1 DEF Job
<1>4. Job(d) \in Snapshot
  BY <1>2, <1>3, <1>1, ElementOfSeq
<1> QED
  BY <1>1, <1>2, <1>3, <1>4 DEF Snapshot

(* What is left of a batch after its first snapshot.                         *)
LEMMA TailFacts ==
  ASSUME Work, NEW d \in Daemon, pc[d] \in Busy
  PROVE  /\ Tail(batch[d]) \in Seq(Snapshot)
         /\ DOMAIN Tail(batch[d]) = 1..(Len(batch[d]) - 1)
         /\ \A i \in DOMAIN Tail(batch[d]) :
              /\ i + 1 \in DOMAIN batch[d]
              /\ i + 1 > 1
              /\ Tail(batch[d])[i] = batch[d][i + 1]
         /\ Len(batch[d]) # 1 => Tail(batch[d]) # <<>>
<1>1. /\ batch[d] \in Seq(Snapshot)
      /\ batch[d] # <<>>
      /\ Len(batch[d]) \in Nat \ {0}
      /\ DOMAIN batch[d] = 1..Len(batch[d])
  BY JobFacts
<1>2. /\ Tail(batch[d]) \in Seq(Snapshot)
      /\ Len(Tail(batch[d])) = Len(batch[d]) - 1
      /\ \A i \in 1..Len(Tail(batch[d])) : Tail(batch[d])[i] = batch[d][i + 1]
  BY <1>1, HeadTailProperties
<1>3. DOMAIN Tail(batch[d]) = 1..(Len(batch[d]) - 1)
  BY <1>2, LenProperties
<1>4. Len(batch[d]) # 1 => Tail(batch[d]) # <<>>
  <2> SUFFICES ASSUME Len(batch[d]) # 1, Tail(batch[d]) = <<>> PROVE FALSE
    OBVIOUS
  <2>1. Len(Tail(batch[d])) = 0
    BY EmptySeq
  <2> QED
    BY <1>1, <1>2, <2>1
<1>5. \A i \in 1..(Len(batch[d]) - 1) : i + 1 \in 1..Len(batch[d]) /\ i + 1 > 1
  BY <1>1
<1> QED
  BY <1>1, <1>2, <1>3, <1>4, <1>5

(* A run once recorded stays recorded, for the same task.                    *)
LEMMA RecordedKept ==
  ASSUME TypeOK, [Next]_svars
  PROVE  /\ Recorded \subseteq Recorded'
         /\ \A r \in Recorded : runs'[r].task = runs[r].task
BY RunsStep DEF RunsMonotone, Recorded

-----------------------------------------------------------------------------
(* Acquisition *)

(* What an acquisition in the system does, in the terms of the store.       *)
LEMMA AcquiresFacts ==
  ASSUME TypeOK, NEW c \in Stamp, NEW limit \in Limits, NEW th \in Thread \cup {Null},
         NEW S \in Batches(Due(c, th), limit), NEW claim \in Injection(S, FreshRun),
         NEW order \in Orders(S), Acquires(claim, order, c, limit, th)
  PROVE  /\ Acquire
         /\ S \subseteq Stored
         /\ Cardinality(S) \in Nat
         /\ order \in [1..Cardinality(S) -> S]
         /\ \A i, j \in 1..Cardinality(S) : order[i] = order[j] => i = j
         /\ \A t \in S : \E i \in 1..Cardinality(S) : order[i] = t
         /\ claim \in [S -> FreshRun]
         /\ \A t, u \in S : claim[t] = claim[u] => t = u
         /\ \A t \in S : claim[t] \in Recorded' /\ runs'[claim[t]].task = t
<1>1. S \subseteq Due(c, th) /\ S \subseteq Stored /\ S \subseteq Task
  BY DEF Batches, Due, Stored
<1>2. claim \in [S -> FreshRun] /\ \A t, u \in S : claim[t] = claim[u] => t = u
  BY DEF Injection, IsInjective
<1>3. DOMAIN claim = S
  BY <1>2
<1>4. AcquireDueTasks(claim, c, limit, th)
  BY DEF Acquires
<1>5. Acquire
  BY <1>1, <1>4 DEF Acquire
<1>6. Cardinality(S) \in Nat
  <2>1. IsFiniteSet(S)
    BY <1>1, SystemAssumption, FS_Subset
  <2> QED
    BY <2>1, FS_CardinalityType
<1>7. /\ order \in [1..Cardinality(S) -> S]
      /\ \A i, j \in 1..Cardinality(S) : order[i] = order[j] => i = j
      /\ \A t \in S : \E i \in 1..Cardinality(S) : order[i] = t
  BY DEF Orders, Bijection, Injection, Surjection, IsInjective
<1>8. \A t \in S : claim[t] \in Recorded' /\ runs'[claim[t]].task = t
  <2> SUFFICES ASSUME NEW t \in S
               PROVE  claim[t] \in Recorded' /\ runs'[claim[t]].task = t
    OBVIOUS
  <2>1. claim[t] \in Run
    BY <1>2 DEF FreshRun
  <2>2. (CHOOSE u \in DOMAIN claim : claim[u] = claim[t]) = t
    BY <1>2, <1>3
  <2>3. runs'[claim[t]] = NewRun(t)
    BY <1>3, <1>4, <2>1, <2>2 DEF AcquireDueTasks
  <2>4. NewRun(t) \in RunRow /\ NewRun(t).task = t
    BY <1>1 DEF NewRun, RunRow, RunStatus
  <2> QED
    BY <2>1, <2>3, <2>4, NullAssumption DEF Recorded
<1> QED
  BY <1>1, <1>2, <1>5, <1>6, <1>7, <1>8

-----------------------------------------------------------------------------
(* Every step of the system is a step of the store, or leaves it alone *)

(* A daemon's step ends no iteration, or is a failed preflight or a report.  *)
LEMMA DaemonIsStore ==
  ASSUME TypeOK, Work, NEW d \in Daemon, DaemonStep(d) \/ Crash(d)
  PROVE  [Quiet]_svars \/ PreflightBlocks(d) \/ Report(d)
<1> USE SystemAssumption
<1>1. CASE BeginSweep(d)
  BY <1>1 DEF BeginSweep, Quiet, Sweeps
<1>2. CASE EndSweep(d)
  BY <1>2 DEF EndSweep, Quiet, Sweeps
<1>3. CASE DaemonAcquires(d)
  <2>1. PICK c \in Stamp : \E S \in Batches(Due(c, Null), Limit) :
          \E claim \in Injection(S, FreshRun), order \in Orders(S) :
            Acquires(claim, order, c, Limit, Null)
    BY <1>3 DEF DaemonAcquires
  <2>5. PICK S \in Batches(Due(c, Null), Limit) :
          \E claim \in Injection(S, FreshRun), order \in Orders(S) :
            Acquires(claim, order, c, Limit, Null)
    BY <2>1
  <2>2. PICK claim \in Injection(S, FreshRun), order \in Orders(S) :
          Acquires(claim, order, c, Limit, Null)
    BY <2>5
  <2>3. Limit \in Limits
    OBVIOUS
  <2>4. Acquire
    BY <2>2, <2>3, AcquiresFacts
  <2> QED
    BY <2>4 DEF Quiet
<1>4. CASE PreflightBlocks(d)
  BY <1>4
<1>5. CASE TurnBegins(d) \/ RunnerSkipsTurn(d) \/ TurnReturns(d) \/ TurnRaises(d)
  <2>1. UNCHANGED svars
    BY <1>5 DEF TurnBegins, RunnerSkipsTurn, TurnReturns, TurnRaises, Returns, svars
  <2> QED
    BY <2>1
<1>6. CASE Rebind(d)
  <2>1. Job(d).task \in Task /\ result[d].thread \in Thread
    BY <1>6, JobFacts DEF Rebind, Busy, Work
  <2> QED
    BY <1>6, <2>1 DEF Rebind, Quiet
<1>7. CASE Report(d)
  BY <1>7
<1>8. CASE Restart(d)
  BY <1>8 DEF Restart, Quiet
<1>9. CASE Crash(d)
  BY <1>9 DEF Crash, Quiet, Sweeps
<1> QED
  BY <1>1, <1>2, <1>3, <1>4, <1>5, <1>6, <1>7, <1>8, <1>9 DEF DaemonStep

(* The report of a daemon is a completion that names its run.                *)
LEMMA ReportIsStore ==
  ASSUME Work, NEW d \in Daemon, Report(d)
  PROVE  /\ Job(d).task \in Task /\ Job(d).run \in Run
         /\ \E st \in Reported, th \in Reports, src \in CompletionSource, c \in Stamp :
              CompleteIteration(Job(d).task, Job(d).run, st, Null, th, src, c)
<1> USE SystemAssumption
<1>1. Job(d).task \in Task /\ Job(d).run \in Run /\ result[d] \in Result
  BY JobFacts DEF Report, Busy, Work
<1>2. result[d].thread \in Thread \cup {Null}
  BY <1>1 DEF Result
<1>3. PICK c \in Stamp :
        CompleteIteration(Job(d).task, Job(d).run,
          IF result[d].outcome = "completed" THEN "continue" ELSE "failed",
          Null, result[d].thread,
          IF result[d].outcome = "raised" THEN "scheduler_exception"
          ELSE "scheduler_fallback", c)
  BY DEF Report
<1>4. (IF result[d].outcome = "completed" THEN "continue" ELSE "failed") \in Reported
  BY DEF Reported
<1>5. (IF result[d].outcome = "raised" THEN "scheduler_exception"
       ELSE "scheduler_fallback") \in CompletionSource
  OBVIOUS
<1>6. Null \in Delays
  OBVIOUS
<1>7. result[d].thread \in Reports
  BY <1>2
<1> QED
  BY <1>1, <1>3, <1>4, <1>5, <1>7

(* A Stop hook's step ends no iteration.                                     *)
LEMMA HookIsStore ==
  ASSUME TypeOK, NEW h \in Hook, HookStep(h)
  PROVE  [Quiet]_svars
<1> USE SystemAssumption
<1>1. CASE BeginSweep(h)
  BY <1>1 DEF BeginSweep, Quiet, Sweeps
<1>2. CASE EndSweep(h)
  BY <1>2 DEF EndSweep, Quiet, Sweeps
<1>3. CASE HookAcquires(h)
  <2>1. PICK c \in Stamp, th \in HookFilter : \E S \in Batches(Due(c, th), HookLimit) :
          \E claim \in Injection(S, FreshRun), order \in Orders(S) :
            Acquires(claim, order, c, HookLimit, th)
    BY <1>3 DEF HookAcquires
  <2>5. PICK S \in Batches(Due(c, th), HookLimit) :
          \E claim \in Injection(S, FreshRun), order \in Orders(S) :
            Acquires(claim, order, c, HookLimit, th)
    BY <2>1
  <2>2. PICK claim \in Injection(S, FreshRun), order \in Orders(S) :
          Acquires(claim, order, c, HookLimit, th)
    BY <2>5
  <2>3. HookLimit \in Limits /\ th \in Thread \cup {Null}
    OBVIOUS
  <2>4. Acquire
    BY <2>2, <2>3, AcquiresFacts
  <2> QED
    BY <2>4 DEF Quiet
<1>4. CASE HookGivesUp(h)
  BY <1>4 DEF HookGivesUp, Quiet, Sweeps
<1> QED
  BY <1>1, <1>2, <1>3, <1>4 DEF HookStep

(* A turn's step serves a task or leaves the store alone.                   *)
LEMMA TurnIsStore ==
  ASSUME TypeOK, Work, NEW r \in Run, TurnStep(r)
  PROVE  [Served]_svars
<1> USE SystemAssumption
<1>1. CASE TurnReports(r)
  <2>1. r \in Recorded
    BY <1>1 DEF TurnReports, Work
  <2>2. runs[r].task \in Task
    BY <2>1 DEF TypeOK, Recorded, RunRow
  <2>3. PICK named \in NamesRun, st \in TurnStatus, dl \in Delays, th \in Reports, c \in Stamp :
          CompleteIteration(runs[r].task, IF named THEN r ELSE Null, st, dl, th,
                            "mcp_tool", c)
    BY <1>1 DEF TurnReports
  <2>4. (IF named THEN r ELSE Null) \in Run \cup {Null}
    OBVIOUS
  <2>5. st \in Reported /\ "mcp_tool" \in CompletionSource
    OBVIOUS
  <2> QED
    BY <2>2, <2>3, <2>4, <2>5 DEF Served
<1>2. CASE TurnEnds(r)
  BY <1>2 DEF TurnEnds, svars
<1> QED
  BY <1>1, <1>2 DEF TurnStep

(* A user's step is a step of the store.                                    *)
LEMMA UserIsStore ==
  ASSUME NEW t \in Task, UserStep(t)
  PROVE  [Next]_svars
<1> USE SystemAssumption
<1>1. Edit(t)
  <2>1. CASE UserCreates(t)
    BY <2>1 DEF UserCreates, Edit
  <2>2. CASE UserUpdates(t)
    BY <2>2 DEF UserUpdates, Edit
  <2>3. CASE UserCancels(t)
    BY <2>3 DEF UserCancels, Edit
  <2>4. CASE UserBinds(t)
    BY <2>4 DEF UserBinds, Edit
  <2> QED
    BY <2>1, <2>2, <2>3, <2>4 DEF UserStep
<1> QED
  BY <1>1 DEF Next

(* A failed preflight is an abort of a stored task.                         *)
LEMMA PreflightIsStore ==
  ASSUME Work, NEW d \in Daemon, PreflightBlocks(d)
  PROVE  /\ Job(d).task \in Task
         /\ AbortCurrentRun(Job(d).task, "paused")
BY JobFacts DEF PreflightBlocks, Busy

(* Who makes a step of the system: somebody who serves a task, a daemon that *)
(* gives up a snapshot, or a user.                                           *)
LEMMA SystemStep ==
  ASSUME TypeOK, Work, [SystemNext]_vars
  PROVE  \/ [Served]_svars /\ UNCHANGED <<updated, resumes>>
         \/ \E d \in Daemon : PreflightBlocks(d)
         \/ \E t \in Task : UserStep(t)
<1>1. CASE Passes
  BY <1>1 DEF Passes, Served, Quiet, pvars
<1>2. CASE ClientOpens
  BY <1>2 DEF ClientOpens, Served, Quiet, pvars
<1>3. ASSUME NEW d \in Daemon, DaemonStep(d) \/ Crash(d)
      PROVE  UNCHANGED <<updated, resumes>>
  BY <1>3 DEF DaemonStep, BeginSweep, EndSweep, DaemonAcquires, PreflightBlocks, TurnBegins,
              RunnerSkipsTurn, TurnReturns, TurnRaises, Returns, Rebind, Report, Restart, Crash
<1>7. ASSUME NEW d \in Daemon, DaemonStep(d) \/ Crash(d)
      PROVE  [Served]_svars \/ PreflightBlocks(d)
  <2>1. Report(d) => Served
    BY SystemAssumption, ReportIsStore DEF Served
  <2> QED
    BY <1>7, <2>1, DaemonIsStore DEF Served
<1>4. ASSUME NEW h \in Hook, HookStep(h) PROVE UNCHANGED <<updated, resumes>>
  BY <1>4 DEF HookStep, BeginSweep, EndSweep, HookAcquires, HookGivesUp
<1>5. ASSUME NEW r \in Run, TurnStep(r) PROVE UNCHANGED <<updated, resumes>>
  BY <1>5 DEF TurnStep, TurnReports, TurnEnds, pvars
<1>6. CASE UNCHANGED vars
  BY <1>6 DEF vars, pvars
<1> QED
  BY <1>1, <1>2, <1>3, <1>4, <1>5, <1>6, <1>7, HookIsStore, TurnIsStore DEF SystemNext, Served

(* Every step of the system is a step of the store or leaves it alone.      *)
LEMMA StoreStep == TypeOK /\ Work /\ [SystemNext]_vars => [Next]_svars
<1> SUFFICES ASSUME TypeOK, Work, [SystemNext]_vars PROVE [Next]_svars
  OBVIOUS
<1>1. CASE [Served]_svars
  BY <1>1 DEF Served, Quiet, Next, Edit, End
<1>2. CASE \E d \in Daemon : PreflightBlocks(d)
  BY <1>2, PreflightIsStore DEF Next, End
<1>3. CASE \E t \in Task : UserStep(t)
  BY <1>3, UserIsStore
<1> QED
  BY <1>1, <1>2, <1>3, SystemStep

-----------------------------------------------------------------------------
(* The processes' own state *)

(* A process that only moves on, with its batch and its turns as they were.  *)
LEMMA GotoWork ==
  ASSUME Work, TypeOK, [Next]_svars, NEW p \in Proc,
         NEW label \in {"idle", "sweep", "acquire", "down"},
         Goto(p, label), UNCHANGED <<batch, result, turn>>
  PROVE  Work'
<1>1. Recorded \subseteq Recorded'
  BY RecordedKept
<1>2. pc' \in [Proc -> {"idle", "sweep", "acquire", "down"} \cup Busy]
  BY DEF Goto, Work
<1>3. \A d \in Daemon : pc'[d] \in Busy => pc'[d] = pc[d]
  BY SystemAssumption DEF Goto, Work, Busy
<1> QED
  BY <1>1, <1>2, <1>3 DEF Work, Busy

(* A daemon that is done with the first snapshot of its batch.               *)
LEMMA NextJobWork ==
  ASSUME Work, TypeOK, [Next]_svars, NEW d \in Daemon, pc[d] \in Busy, NextJob(d),
         result' \in [Daemon -> Result \cup {Null}],
         \A e \in Daemon \ {d} : result'[e] = result[e],
         turn' = turn
  PROVE  Work'
<1> USE SystemAssumption
<1>1. Recorded \subseteq Recorded'
  BY RecordedKept
<1>2. Tail(batch[d]) \in Seq(Snapshot) /\ (Len(batch[d]) # 1 => Tail(batch[d]) # <<>>)
  BY TailFacts
<1>3. batch' \in [Daemon -> Seq(Snapshot)]
  BY <1>2 DEF NextJob, Work
<1>4. pc' \in [Proc -> {"idle", "sweep", "acquire", "down"} \cup Busy]
  BY DEF NextJob, Goto, Work, Busy
<1>5. \A e \in Daemon \ {d} : pc'[e] = pc[e] /\ batch'[e] = batch[e]
  BY DEF NextJob, Goto, Work
<1>6. /\ pc'[d] \in {"idle", "task"}
      /\ pc'[d] = "task" => batch'[d] # <<>>
  BY <1>2 DEF NextJob, Goto, Work
<1>7. \A e \in Daemon : pc'[e] \in Busy => batch'[e] # <<>>
  BY <1>5, <1>6 DEF Work, Busy
<1>8. \A e \in Daemon : pc'[e] \in {"rebind", "report"} => result'[e] \in Result
  BY <1>5, <1>6 DEF Work
<1>9. \A e \in Daemon : pc'[e] = "rebind" => result'[e].thread \in Thread
  BY <1>5, <1>6 DEF Work
<1>10. \A r \in Run : turn'[r] # "none" => r \in Recorded'
  BY <1>1 DEF Work
<1> QED
  BY <1>3, <1>4, <1>7, <1>8, <1>9, <1>10 DEF Work

(* A daemon whose runner returned res.                                       *)
LEMMA ReturnsWork ==
  ASSUME Work, TypeOK, NEW d \in Daemon, NEW res \in Result, pc[d] \in Busy,
         Returns(d, res), turn' \in [Run -> {"none", "live", "over"}],
         \A r \in Run : turn'[r] # "none" => r \in Recorded
  PROVE  Work'
<1> USE SystemAssumption
<1>1. Recorded' = Recorded
  BY DEF Returns, svars, Recorded
<1>2. /\ pc' \in [Proc -> {"idle", "sweep", "acquire", "down"} \cup Busy]
      /\ pc'[d] \in {"rebind", "report"}
      /\ pc'[d] = "rebind" => res.thread # Null
      /\ \A e \in Daemon \ {d} : pc'[e] = pc[e]
  BY DEF Returns, Rebinds, Goto, Work, Busy
<1>3. /\ result' \in [Daemon -> Result \cup {Null}]
      /\ result'[d] = res
      /\ \A e \in Daemon \ {d} : result'[e] = result[e]
  BY DEF Returns, Work
<1>4. res.thread \in Thread \cup {Null}
  BY DEF Result
<1>5. batch' = batch
  BY DEF Returns
<1>6. \A e \in Daemon : pc'[e] \in Busy => batch'[e] # <<>>
  BY <1>2, <1>5 DEF Work
<1>7. \A e \in Daemon : pc'[e] \in {"rebind", "report"} => result'[e] \in Result
  BY <1>2, <1>3 DEF Work
<1>8. \A e \in Daemon : pc'[e] = "rebind" => result'[e].thread \in Thread
  BY <1>2, <1>3, <1>4 DEF Work
<1> QED
  BY <1>1, <1>2, <1>3, <1>5, <1>6, <1>7, <1>8 DEF Work

(* The batch a daemon builds from what it acquired.                          *)
LEMMA BatchFacts ==
  ASSUME TypeOK, NEW S \in SUBSET Stored, Cardinality(S) \in Nat,
         NEW order \in [1..Cardinality(S) -> S], NEW claim \in [S -> FreshRun],
         \A t \in S : \E i \in 1..Cardinality(S) : order[i] = t
  PROVE  LET b == Snapshots(claim, order)
         IN  /\ b \in Seq(Snapshot)
             /\ DOMAIN b = 1..Cardinality(S)
             /\ \A i \in DOMAIN b : b[i].task = order[i] /\ b[i].run = claim[order[i]]
             /\ S # {} => b # <<>>
<1> DEFINE b == Snapshots(claim, order)
<1>1. DOMAIN order = 1..Cardinality(S)
  OBVIOUS
<1>6. /\ DOMAIN b = 1..Cardinality(S)
      /\ \A i \in 1..Cardinality(S) : b[i] = [task   |-> order[i],
                                              run    |-> claim[order[i]],
                                              thread |-> tasks[order[i]].thread]
  BY <1>1 DEF Snapshots
<1>7. b = [i \in 1..Cardinality(S) |-> b[i]]
  BY <1>1 DEF Snapshots
<1> HIDE DEF b
<1>2. \A i \in 1..Cardinality(S) : b[i] \in Snapshot
  <2> SUFFICES ASSUME NEW i \in 1..Cardinality(S) PROVE b[i] \in Snapshot
    OBVIOUS
  <2>1. order[i] \in Task /\ claim[order[i]] \in Run /\ tasks[order[i]] \in TaskRow
    BY StoredRow DEF FreshRun, Stored
  <2>2. tasks[order[i]].thread \in Thread \cup {Current}
    BY <2>1 DEF TaskRow
  <2> QED
    BY <1>6, <2>1, <2>2 DEF Snapshot
<1>3. b \in [1..Cardinality(S) -> Snapshot]
  BY <1>7, <1>2
<1>4. b \in Seq(Snapshot)
  <2>1. Seq(Snapshot) = UNION {[1..n -> Snapshot] : n \in Nat}
    BY SeqDef
  <2>2. [1..Cardinality(S) -> Snapshot] \in {[1..n -> Snapshot] : n \in Nat}
    OBVIOUS
  <2>3. b \in UNION {[1..n -> Snapshot] : n \in Nat}
    BY <1>3, <2>2, Zenon
  <2> QED
    BY <2>1, <2>3, Zenon
<1>5. S # {} => b # <<>>
  <2> SUFFICES ASSUME S # {}, b = <<>> PROVE FALSE
    OBVIOUS
  <2>1. PICK i \in 1..Cardinality(S) : TRUE
    OBVIOUS
  <2>2. DOMAIN b = {}
    OBVIOUS
  <2> QED
    BY <1>3, <2>1, <2>2
<1> QED
  BY <1>6, <1>4, <1>5 DEF b

(* A daemon's step keeps the work of all processes well formed.             *)
LEMMA DaemonWork ==
  ASSUME TypeOK, Work, Hands, [Next]_svars, NEW d \in Daemon,
         DaemonStep(d) \/ Crash(d)
  PROVE  Work'
<1> USE SystemAssumption
<1>0. Recorded \subseteq Recorded'
  BY RecordedKept
<1>1. CASE BeginSweep(d)
  BY <1>1, GotoWork DEF BeginSweep
<1>2. CASE EndSweep(d)
  BY <1>2, GotoWork DEF EndSweep
<1>3. CASE DaemonAcquires(d)
  <2>1. PICK c \in Stamp : \E S \in Batches(Due(c, Null), Limit) :
          \E claim \in Injection(S, FreshRun), order \in Orders(S) :
            /\ Acquires(claim, order, c, Limit, Null)
            /\ batch' = [batch EXCEPT ![d] = Snapshots(claim, order)]
            /\ Goto(d, IF S = {} THEN "idle" ELSE "task")
    BY <1>3 DEF DaemonAcquires
  <2>2. PICK S \in Batches(Due(c, Null), Limit) :
          \E claim \in Injection(S, FreshRun), order \in Orders(S) :
            /\ Acquires(claim, order, c, Limit, Null)
            /\ batch' = [batch EXCEPT ![d] = Snapshots(claim, order)]
            /\ Goto(d, IF S = {} THEN "idle" ELSE "task")
    BY <2>1
  <2>3. PICK claim \in Injection(S, FreshRun), order \in Orders(S) :
            /\ Acquires(claim, order, c, Limit, Null)
            /\ batch' = [batch EXCEPT ![d] = Snapshots(claim, order)]
            /\ Goto(d, IF S = {} THEN "idle" ELSE "task")
    BY <2>2
  <2>4. /\ S \subseteq Stored
        /\ Cardinality(S) \in Nat
        /\ order \in [1..Cardinality(S) -> S]
        /\ \A t \in S : \E i \in 1..Cardinality(S) : order[i] = t
        /\ claim \in [S -> FreshRun]
    <3>1. Limit \in Limits
      OBVIOUS
    <3> QED
      BY <2>3, <3>1, AcquiresFacts
  <2> DEFINE b == Snapshots(claim, order)
  <2>5. b \in Seq(Snapshot) /\ (S # {} => b # <<>>)
    <3>1. /\ S \in SUBSET Stored
          /\ Cardinality(S) \in Nat
          /\ order \in [1..Cardinality(S) -> S]
          /\ claim \in [S -> FreshRun]
          /\ \A t \in S : \E i \in 1..Cardinality(S) : order[i] = t
      BY <2>4
    <3> QED
      BY <3>1, BatchFacts
  <2>6. batch' = [batch EXCEPT ![d] = b]
    BY <2>3
  <2> HIDE DEF b
  <2>7. /\ batch' \in [Daemon -> Seq(Snapshot)]
        /\ batch'[d] = b
        /\ \A e \in Daemon \ {d} : batch'[e] = batch[e]
    BY <2>5, <2>6 DEF Work
  <2>8. /\ pc' \in [Proc -> {"idle", "sweep", "acquire", "down"} \cup Busy]
        /\ pc'[d] = (IF S = {} THEN "idle" ELSE "task")
        /\ \A e \in Daemon \ {d} : pc'[e] = pc[e]
    BY <2>3 DEF Goto, Work, Busy
  <2>9. \A e \in Daemon : pc'[e] \in Busy => batch'[e] # <<>>
    BY <2>5, <2>7, <2>8 DEF Work, Busy
  <2>10. result' = result /\ turn' = turn
    BY <1>3 DEF DaemonAcquires
  <2> QED
    BY <1>0, <2>7, <2>8, <2>9, <2>10 DEF Work
<1>4. CASE PreflightBlocks(d)
  <2>1. result' = result /\ turn' = turn /\ NextJob(d) /\ pc[d] \in Busy
    BY <1>4 DEF PreflightBlocks, Busy
  <2> QED
    BY <2>1, NextJobWork DEF Work
<1>5. CASE TurnBegins(d)
  <2>1. Job(d).run \in Run
    BY <1>5, JobFacts DEF TurnBegins, Busy
  <2>2. /\ pc' \in [Proc -> {"idle", "sweep", "acquire", "down"} \cup Busy]
        /\ pc'[d] = "running"
        /\ pc[d] = "task"
        /\ \A e \in Daemon \ {d} : pc'[e] = pc[e]
    BY <1>5 DEF TurnBegins, Goto, Work, Busy
  <2>3. UNCHANGED <<batch, result>>
    BY <1>5 DEF TurnBegins
  <2>4. turn' \in [Run -> {"none", "live", "over"}]
    BY <1>5 DEF TurnBegins, Work
  <2>5. Job(d).run \in Recorded
    BY <1>5, JobFacts DEF TurnBegins, Busy, Hands, RunHasOneExecutor
  <2>6. \A r \in Run : turn'[r] # "none" => r \in Recorded'
    BY <1>0, <1>5, <2>1, <2>5 DEF TurnBegins, Work
  <2> QED
    BY <2>2, <2>3, <2>4, <2>6 DEF Work, Busy
<1>6. CASE RunnerSkipsTurn(d)
  <2>1. PICK outcome \in NoTurnOutcomes(Runner[d]) :
          Returns(d, [Raised EXCEPT !.outcome = outcome])
    BY <1>6 DEF RunnerSkipsTurn
  <2>2. [Raised EXCEPT !.outcome = outcome] \in Result
    BY DEF Raised, Result, NoTurnOutcomes
  <2> QED
    BY <1>6, <2>1, <2>2, ReturnsWork DEF RunnerSkipsTurn, Work, Busy
<1>7. CASE TurnReturns(d)
  <2>1. PICK outcome \in {"completed", "failed"}, th \in ReportedThreads(d) :
          Returns(d, [outcome |-> outcome, thread |-> th])
    BY <1>7 DEF TurnReturns
  <2>2. pc[d] \in Busy
    BY <1>7 DEF TurnReturns, Busy
  <2>3. th \in Thread \cup {Null}
    BY DEF ReportedThreads
  <2>4. [outcome |-> outcome, thread |-> th] \in Result
    BY <2>3 DEF Result
  <2>5. Job(d).run \in Recorded
    BY <2>2, JobFacts DEF Hands, RunHasOneExecutor
  <2>6. /\ turn' \in [Run -> {"none", "live", "over"}]
        /\ \A r \in Run : turn'[r] # "none" => r \in Recorded
    BY <1>7, <2>5 DEF TurnReturns, Work
  <2> QED
    BY <2>1, <2>2, <2>4, <2>6, ReturnsWork
<1>8. CASE TurnRaises(d)
  <2>1. pc[d] \in Busy /\ Returns(d, Raised) /\ Raised \in Result
    BY <1>8 DEF TurnRaises, Busy, Raised, Result
  <2>2. Job(d).run \in Recorded
    BY <2>1, JobFacts DEF Hands, RunHasOneExecutor
  <2>3. /\ turn' \in [Run -> {"none", "live", "over"}]
        /\ \A r \in Run : turn'[r] # "none" => r \in Recorded
    BY <1>8, <2>2 DEF TurnRaises, Work
  <2> QED
    BY <2>1, <2>3, ReturnsWork
<1>9. CASE Rebind(d)
  <2>1. UNCHANGED <<batch, result, turn>> /\ pc[d] = "rebind"
    BY <1>9 DEF Rebind
  <2>2. /\ pc' \in [Proc -> {"idle", "sweep", "acquire", "down"} \cup Busy]
        /\ pc'[d] = "report"
        /\ \A e \in Daemon \ {d} : pc'[e] = pc[e]
    BY <1>9 DEF Rebind, Goto, Work, Busy
  <2> QED
    BY <1>0, <2>1, <2>2 DEF Work, Busy
<1>10. CASE Report(d)
  <2>1. pc[d] \in Busy /\ NextJob(d) /\ turn' = turn
    BY <1>10 DEF Report, Busy
  <2>2. /\ result' \in [Daemon -> Result \cup {Null}]
        /\ \A e \in Daemon \ {d} : result'[e] = result[e]
    BY <1>10 DEF Report, Work
  <2> QED
    BY <2>1, <2>2, NextJobWork
<1>11. CASE Restart(d)
  BY <1>11, GotoWork DEF Restart
<1>12. CASE Crash(d)
  <2>1. turn' = turn
    BY <1>12 DEF Crash
  <2>2. /\ pc' \in [Proc -> {"idle", "sweep", "acquire", "down"} \cup Busy]
        /\ pc'[d] = "down"
        /\ \A e \in Daemon \ {d} : pc'[e] = pc[e]
    BY <1>12 DEF Crash, Goto, Work, Busy
  <2>3. /\ batch' \in [Daemon -> Seq(Snapshot)]
        /\ \A e \in Daemon \ {d} : batch'[e] = batch[e]
    BY <1>12, EmptySeq DEF Crash, Work
  <2>4. /\ result' \in [Daemon -> Result \cup {Null}]
        /\ \A e \in Daemon \ {d} : result'[e] = result[e]
    BY <1>12 DEF Crash, Work
  <2> QED
    BY <1>0, <2>1, <2>2, <2>3, <2>4 DEF Work, Busy
<1> QED
  BY <1>1, <1>2, <1>3, <1>4, <1>5, <1>6, <1>7, <1>8, <1>9, <1>10, <1>11, <1>12 DEF DaemonStep

(* A Stop hook begins at most the turn of a run that it has just acquired.  *)
LEMMA HookTurns ==
  ASSUME TypeOK, NEW h \in Hook, HookAcquires(h)
  PROVE  \/ turn' = turn
         \/ \E r \in FreshRun : r \in Recorded' /\ turn' = [turn EXCEPT ![r] = "live"]
<1> USE SystemAssumption
<1>1. PICK c \in Stamp, th \in HookFilter : \E S \in Batches(Due(c, th), HookLimit) :
        \E claim \in Injection(S, FreshRun), order \in Orders(S), heard \in BOOLEAN :
          /\ Acquires(claim, order, c, HookLimit, th)
          /\ turn' = IF heard /\ S # {} THEN [turn EXCEPT ![claim[order[1]]] = "live"]
                     ELSE turn
  BY DEF HookAcquires
<1>2. PICK S \in Batches(Due(c, th), HookLimit) :
        \E claim \in Injection(S, FreshRun), order \in Orders(S), heard \in BOOLEAN :
          /\ Acquires(claim, order, c, HookLimit, th)
          /\ turn' = IF heard /\ S # {} THEN [turn EXCEPT ![claim[order[1]]] = "live"]
                     ELSE turn
  BY <1>1
<1>3. PICK claim \in Injection(S, FreshRun), order \in Orders(S), heard \in BOOLEAN :
          /\ Acquires(claim, order, c, HookLimit, th)
          /\ turn' = IF heard /\ S # {} THEN [turn EXCEPT ![claim[order[1]]] = "live"]
                     ELSE turn
  BY <1>2
<1>4. /\ Cardinality(S) \in Nat
      /\ order \in [1..Cardinality(S) -> S]
      /\ \A t \in S : \E i \in 1..Cardinality(S) : order[i] = t
      /\ claim \in [S -> FreshRun]
      /\ \A t \in S : claim[t] \in Recorded'
  <2>1. HookLimit \in Limits /\ th \in Thread \cup {Null}
    OBVIOUS
  <2> QED
    BY <1>3, <2>1, AcquiresFacts
<1>5. CASE S # {}
  <2>1. PICK i \in 1..Cardinality(S) : TRUE
    BY <1>4, <1>5
  <2>2. 1 \in 1..Cardinality(S)
    BY <1>4, <2>1
  <2>3. claim[order[1]] \in FreshRun /\ claim[order[1]] \in Recorded'
    BY <1>4, <2>2
  <2> QED
    BY <1>3, <2>3
<1>6. CASE S = {}
  BY <1>3, <1>6
<1> QED
  BY <1>5, <1>6

(* A Stop hook's step keeps the work of all processes well formed.          *)
LEMMA HookWork ==
  ASSUME TypeOK, Work, [Next]_svars, NEW h \in Hook, HookStep(h)
  PROVE  Work'
<1> USE SystemAssumption
<1>1. CASE BeginSweep(h)
  BY <1>1, GotoWork DEF BeginSweep
<1>2. CASE EndSweep(h)
  BY <1>2, GotoWork DEF EndSweep
<1>3. CASE HookAcquires(h)
  <2>1. Recorded \subseteq Recorded'
    BY RecordedKept
  <2>2. /\ turn' \in [Run -> {"none", "live", "over"}]
        /\ \A r \in Run : turn'[r] # "none" => r \in Recorded'
    BY <1>3, <2>1, HookTurns DEF Work
  <2>3. UNCHANGED <<batch, result>> /\ Goto(h, "idle")
    BY <1>3 DEF HookAcquires
  <2>4. /\ pc' \in [Proc -> {"idle", "sweep", "acquire", "down"} \cup Busy]
        /\ \A d \in Daemon : pc'[d] = pc[d]
    BY <2>3 DEF Goto, Work, Busy
  <2> QED
    BY <2>2, <2>3, <2>4 DEF Work
<1>4. CASE HookGivesUp(h)
  BY <1>4, GotoWork DEF HookGivesUp
<1> QED
  BY <1>1, <1>2, <1>3, <1>4 DEF HookStep

(* Every step of the system keeps the work of all processes well formed.    *)
LEMMA WorkStep == SystemInv /\ [SystemNext]_vars => Work'
<1> SUFFICES ASSUME TypeOK, Work, Hands, [SystemNext]_vars PROVE Work'
  BY DEF SystemInv
<1>0. [Next]_svars
  BY StoreStep
<1>1. Recorded \subseteq Recorded'
  BY <1>0, RecordedKept
<1>2. CASE UNCHANGED <<pc, batch, result, turn>>
  BY <1>1, <1>2 DEF Work
<1>3. CASE Passes \/ ClientOpens
  BY <1>2, <1>3 DEF Passes, ClientOpens, pvars
<1>4. CASE \E d \in Daemon : DaemonStep(d) \/ Crash(d)
  BY <1>0, <1>4, DaemonWork
<1>5. CASE \E h \in Hook : HookStep(h)
  BY <1>0, <1>5, HookWork
<1>6. CASE \E r \in Run : TurnStep(r)
  <2>1. PICK r \in Run : TurnStep(r)
    BY <1>6
  <2>2. CASE TurnReports(r)
    BY <1>2, <2>2 DEF TurnReports, pvars
  <2>3. CASE TurnEnds(r)
    <3>1. /\ turn' \in [Run -> {"none", "live", "over"}]
          /\ \A q \in Run : turn'[q] # "none" => q \in Recorded'
      BY <1>1, <2>3 DEF TurnEnds, Work
    <3> QED
      BY <2>3, <3>1 DEF TurnEnds, Work
  <2> QED
    BY <2>1, <2>2, <2>3 DEF TurnStep
<1>7. CASE \E t \in Task : UserStep(t)
  BY <1>2, <1>7 DEF UserStep, UserCreates, UserUpdates, UserCancels, UserBinds, pvars
<1>8. CASE UNCHANGED vars
  BY <1>2, <1>8 DEF vars, pvars
<1> QED
  BY <1>3, <1>4, <1>5, <1>6, <1>7, <1>8 DEF SystemNext

-----------------------------------------------------------------------------
(* Whose hands a run is in *)

(* Batches that only lose a prefix of length k, while every run still to be  *)
(* started has no turn, stay apart.                                          *)
LEMMA HandsShift ==
  ASSUME TypeOK, Work, Hands, [Next]_svars, NEW k \in [Daemon -> {0, 1}],
         \A e \in Daemon : \A i \in DOMAIN batch'[e] :
           /\ i \in Nat
           /\ i + k[e] \in DOMAIN batch[e]
           /\ batch'[e][i] = batch[e][i + k[e]]
           /\ (i > 1 \/ pc'[e] = "task") => turn'[batch'[e][i].run] = "none"
  PROVE  Hands'
<1>1. \A e \in Daemon : Handled(e)' \subseteq Handled(e)
  BY DEF Handled
<1>2. \A d \in Daemon : \A e \in Daemon \ {d} : Handled(d)' \cap Handled(e)' = {}
  BY <1>1 DEF Hands, RunHasOneExecutor
<1>3. \A d \in Daemon : \A i \in DOMAIN batch'[d] :
        /\ batch'[d][i].run \in Recorded'
        /\ runs'[batch'[d][i].run].task = batch'[d][i].task
  BY RecordedKept DEF Hands, RunHasOneExecutor
<1>4. \A d \in Daemon : \A i, j \in DOMAIN batch'[d] :
        batch'[d][i].run = batch'[d][j].run => i = j
  <2> SUFFICES ASSUME NEW d \in Daemon, NEW i \in DOMAIN batch'[d],
                      NEW j \in DOMAIN batch'[d], batch'[d][i].run = batch'[d][j].run
               PROVE  i = j
    OBVIOUS
  <2>1. i + k[d] = j + k[d]
    BY DEF Hands
  <2>2. i \in Nat /\ j \in Nat /\ k[d] \in Nat
    OBVIOUS
  <2> QED
    BY <2>1, <2>2
<1> QED
  BY <1>2, <1>3, <1>4 DEF Hands, RunHasOneExecutor

(* Nothing moves but processes, none of them to a new snapshot.              *)
LEMMA HandsIdle ==
  ASSUME TypeOK, Work, Hands, [Next]_svars, batch' = batch,
         \A e \in Daemon : pc'[e] = "task" => pc[e] = "task",
         \A e \in Daemon : \A i \in DOMAIN batch[e] :
           turn[batch[e][i].run] = "none" => \/ turn'[batch[e][i].run] = "none"
                                             \/ i = 1 /\ pc'[e] # "task"
  PROVE  Hands'
<1> DEFINE k == [e \in Daemon |-> 0]
<1>1. \A e \in Daemon : \A i \in DOMAIN batch[e] : i \in Nat /\ i + k[e] = i
  BY LenProperties DEF Work
<1>2. k \in [Daemon -> {0, 1}]
  OBVIOUS
<1>3. \A e \in Daemon : \A i \in DOMAIN batch[e] :
        (i > 1 \/ pc'[e] = "task") => turn'[batch[e][i].run] = "none"
  BY DEF Hands, RunHasOneExecutor
<1> HIDE DEF k
<1> QED
  BY <1>1, <1>2, <1>3, HandsShift

(* Going on to the next snapshot of a batch puts no run in two hands.       *)
LEMMA HandsNextJob ==
  ASSUME TypeOK, Work, Hands, [Next]_svars, NEW d \in Daemon, pc[d] \in Busy,
         NextJob(d), turn' = turn
  PROVE  Hands'
<1> DEFINE k == [e \in Daemon |-> IF e = d THEN 1 ELSE 0]
<1>1. k \in [Daemon -> {0, 1}]
  OBVIOUS
<1>2. /\ batch'[d] = Tail(batch[d])
      /\ \A e \in Daemon \ {d} : batch'[e] = batch[e] /\ pc'[e] = pc[e]
  BY SystemAssumption DEF NextJob, Goto, Work
<1>3. \A i \in DOMAIN batch'[d] :
        /\ i \in Nat
        /\ i + 1 \in DOMAIN batch[d]
        /\ batch'[d][i] = batch[d][i + 1]
        /\ turn'[batch'[d][i].run] = "none"
  BY <1>2, TailFacts DEF Hands, RunHasOneExecutor
<1>4. \A e \in Daemon \ {d} : \A i \in DOMAIN batch'[e] :
        /\ i \in Nat
        /\ i + 0 \in DOMAIN batch[e]
        /\ batch'[e][i] = batch[e][i + 0]
        /\ (i > 1 \/ pc'[e] = "task") => turn'[batch'[e][i].run] = "none"
  <2>1. \A e \in Daemon : \A i \in DOMAIN batch[e] : i \in Nat /\ i + 0 = i
    BY LenProperties DEF Work
  <2> QED
    BY <1>2, <2>1 DEF Hands, RunHasOneExecutor
<1>5. k[d] = 1 /\ \A e \in Daemon \ {d} : k[e] = 0
  OBVIOUS
<1> HIDE DEF k
<1>6. \A e \in Daemon : \A i \in DOMAIN batch'[e] :
        /\ i \in Nat
        /\ i + k[e] \in DOMAIN batch[e]
        /\ batch'[e][i] = batch[e][i + k[e]]
        /\ (i > 1 \/ pc'[e] = "task") => turn'[batch'[e][i].run] = "none"
  <2> SUFFICES ASSUME NEW e \in Daemon
               PROVE  \A i \in DOMAIN batch'[e] :
                        /\ i \in Nat
                        /\ i + k[e] \in DOMAIN batch[e]
                        /\ batch'[e][i] = batch[e][i + k[e]]
                        /\ (i > 1 \/ pc'[e] = "task") => turn'[batch'[e][i].run] = "none"
    OBVIOUS
  <2>1. CASE e = d
    BY <1>3, <1>5, <2>1
  <2>2. CASE e # d
    BY <1>4, <1>5, <2>2
  <2> QED
    BY <2>1, <2>2
<1> QED
  BY <1>1, <1>6, HandsShift

(* The turn of the snapshot that a daemon runs is no other snapshot's.       *)
LEMMA HandsRunning ==
  ASSUME TypeOK, Work, Hands, [Next]_svars, NEW d \in Daemon, pc[d] \in Busy,
         NEW label \in {"running", "rebind", "report"}, Goto(d, label), batch' = batch,
         \A r \in Run \ {Job(d).run} : turn'[r] = turn[r]
  PROVE  Hands'
<1>1. pc'[d] # "task" /\ \A e \in Daemon \ {d} : pc'[e] = pc[e]
  BY SystemAssumption DEF Goto, Work
<1>2. \A e \in Daemon : \A i \in DOMAIN batch[e] :
        batch[e][i].run = Job(d).run => e = d /\ i = 1
  <2>1. 1 \in DOMAIN batch[d] /\ Job(d) = batch[d][1]
    BY JobFacts
  <2>2. \A i \in DOMAIN batch[d] : batch[d][i].run = Job(d).run => i = 1
    BY <2>1 DEF Hands
  <2>3. \A e \in Daemon \ {d} : \A i \in DOMAIN batch[e] : batch[e][i].run # Job(d).run
    BY <2>1 DEF Hands, RunHasOneExecutor, Handled
  <2> QED
    BY <2>2, <2>3
<1>3. \A e \in Daemon : \A i \in DOMAIN batch[e] : batch[e][i].run \in Run
  BY DEF Hands, RunHasOneExecutor, Recorded
<1> QED
  BY <1>1, <1>2, <1>3, HandsIdle

(* Fresh runs are in nobody's hands and have no turn.                        *)
LEMMA HandsAcquired ==
  ASSUME TypeOK, Work, Hands, [Next]_svars, NEW d \in Daemon, DaemonAcquires(d)
  PROVE  Hands'
<1> USE SystemAssumption
<1>1. PICK c \in Stamp : \E S \in Batches(Due(c, Null), Limit) :
        \E claim \in Injection(S, FreshRun), order \in Orders(S) :
          /\ Acquires(claim, order, c, Limit, Null)
          /\ batch' = [batch EXCEPT ![d] = Snapshots(claim, order)]
          /\ Goto(d, IF S = {} THEN "idle" ELSE "task")
  BY DEF DaemonAcquires
<1>2. PICK S \in Batches(Due(c, Null), Limit) :
        \E claim \in Injection(S, FreshRun), order \in Orders(S) :
          /\ Acquires(claim, order, c, Limit, Null)
          /\ batch' = [batch EXCEPT ![d] = Snapshots(claim, order)]
          /\ Goto(d, IF S = {} THEN "idle" ELSE "task")
  BY <1>1
<1>3. PICK claim \in Injection(S, FreshRun), order \in Orders(S) :
          /\ Acquires(claim, order, c, Limit, Null)
          /\ batch' = [batch EXCEPT ![d] = Snapshots(claim, order)]
          /\ Goto(d, IF S = {} THEN "idle" ELSE "task")
  BY <1>2
<1>4. /\ S \in SUBSET Stored
      /\ Cardinality(S) \in Nat
      /\ order \in [1..Cardinality(S) -> S]
      /\ \A i, j \in 1..Cardinality(S) : order[i] = order[j] => i = j
      /\ \A t \in S : \E i \in 1..Cardinality(S) : order[i] = t
      /\ claim \in [S -> FreshRun]
      /\ \A t, u \in S : claim[t] = claim[u] => t = u
      /\ \A t \in S : claim[t] \in Recorded' /\ runs'[claim[t]].task = t
  <2>1. Limit \in Limits
    OBVIOUS
  <2> QED
    BY <1>3, <2>1, AcquiresFacts
<1> DEFINE b == Snapshots(claim, order)
<1>5. /\ DOMAIN b = 1..Cardinality(S)
      /\ \A i \in DOMAIN b : b[i].task = order[i] /\ b[i].run = claim[order[i]]
  BY <1>4 DEF Snapshots
<1>6. batch' = [batch EXCEPT ![d] = b]
  BY <1>3
<1> HIDE DEF b
<1>7. batch'[d] = b /\ \A e \in Daemon \ {d} : batch'[e] = batch[e] /\ pc'[e] = pc[e]
  BY <1>3, <1>6 DEF Goto, Work
<1>8. turn' = turn
  BY DEF DaemonAcquires
<1>9. \A i \in DOMAIN b : /\ b[i].run \in FreshRun
                          /\ b[i].run \in Recorded'
                          /\ runs'[b[i].run].task = b[i].task
                          /\ turn[b[i].run] = "none"
  <2>1. \A i \in DOMAIN b : order[i] \in S
    BY <1>4, <1>5
  <2>2. \A r \in FreshRun : turn[r] = "none"
    BY DEF Work, FreshRun
  <2> QED
    BY <1>4, <1>5, <2>1, <2>2
<1>10. \A i, j \in DOMAIN b : b[i].run = b[j].run => i = j
  BY <1>4, <1>5
<1>11. \A e \in Daemon \ {d} : Handled(e)' = Handled(e) /\ Handled(e) \subseteq Recorded
  BY <1>7 DEF Handled, Hands, RunHasOneExecutor
<1>12. Handled(d)' \subseteq FreshRun
  BY <1>7, <1>9 DEF Handled
<1>13. \A f \in Daemon : \A e \in Daemon \ {f} : Handled(f)' \cap Handled(e)' = {}
  BY <1>11, <1>12 DEF Hands, RunHasOneExecutor, FreshRun
<1>14. \A e \in Daemon : \A i \in DOMAIN batch'[e] :
         /\ batch'[e][i].run \in Recorded'
         /\ runs'[batch'[e][i].run].task = batch'[e][i].task
         /\ (i > 1 \/ pc'[e] = "task") => turn'[batch'[e][i].run] = "none"
  BY <1>7, <1>8, <1>9, RecordedKept DEF Hands, RunHasOneExecutor
<1>15. \A e \in Daemon : \A i, j \in DOMAIN batch'[e] :
         batch'[e][i].run = batch'[e][j].run => i = j
  BY <1>7, <1>10 DEF Hands
<1> QED
  BY <1>13, <1>14, <1>15 DEF Hands, RunHasOneExecutor

(* A daemon's step puts no run in two hands.                                *)
LEMMA DaemonHands ==
  ASSUME TypeOK, Work, Hands, [Next]_svars, NEW d \in Daemon,
         DaemonStep(d) \/ Crash(d)
  PROVE  Hands'
<1> USE SystemAssumption
<1>0. ASSUME NEW label \in {"idle", "sweep", "acquire", "report"}, Goto(d, label),
             UNCHANGED <<batch, turn>>
      PROVE  Hands'
  <2>1. \A e \in Daemon : pc'[e] = "task" => pc[e] = "task"
    BY <1>0 DEF Goto, Work
  <2> QED
    BY <1>0, <2>1, HandsIdle
<1>1. CASE BeginSweep(d)
  BY <1>0, <1>1 DEF BeginSweep
<1>2. CASE EndSweep(d)
  BY <1>0, <1>2 DEF EndSweep
<1>3. CASE DaemonAcquires(d)
  BY <1>3, HandsAcquired
<1>4. CASE PreflightBlocks(d)
  BY <1>4, HandsNextJob DEF PreflightBlocks, Busy
<1>5. CASE TurnBegins(d)
  <2>1. pc[d] \in Busy /\ Goto(d, "running") /\ batch' = batch
    BY <1>5 DEF TurnBegins, Busy
  <2>2. \A r \in Run \ {Job(d).run} : turn'[r] = turn[r]
    BY <1>5 DEF TurnBegins, Work
  <2> QED
    BY <2>1, <2>2, HandsRunning
<1>6. ASSUME NEW res, Returns(d, res), pc[d] \in Busy,
             \A r \in Run \ {Job(d).run} : turn'[r] = turn[r]
      PROVE  Hands'
  <2>1. PICK label \in {"rebind", "report"} : Goto(d, label)
    BY <1>6 DEF Returns
  <2>2. batch' = batch
    BY <1>6 DEF Returns
  <2> QED
    BY <1>6, <2>1, <2>2, HandsRunning
<1>7. CASE RunnerSkipsTurn(d)
  BY <1>6, <1>7 DEF RunnerSkipsTurn, Busy
<1>8. CASE TurnReturns(d)
  <2>1. pc[d] \in Busy /\ \A r \in Run \ {Job(d).run} : turn'[r] = turn[r]
    BY <1>8 DEF TurnReturns, Busy, Work
  <2> QED
    BY <1>6, <1>8, <2>1 DEF TurnReturns
<1>9. CASE TurnRaises(d)
  <2>1. pc[d] \in Busy /\ \A r \in Run \ {Job(d).run} : turn'[r] = turn[r]
    BY <1>9 DEF TurnRaises, Busy, Work
  <2> QED
    BY <1>6, <1>9, <2>1 DEF TurnRaises
<1>10. CASE Rebind(d)
  BY <1>0, <1>10 DEF Rebind
<1>11. CASE Report(d)
  BY <1>11, HandsNextJob DEF Report, Busy
<1>12. CASE Restart(d)
  BY <1>0, <1>12 DEF Restart
<1>13. CASE Crash(d)
  <2> DEFINE k == [e \in Daemon |-> 0]
  <2>1. k \in [Daemon -> {0, 1}]
    OBVIOUS
  <2>2. /\ batch'[d] = <<>>
        /\ \A e \in Daemon \ {d} : batch'[e] = batch[e] /\ pc'[e] = pc[e]
        /\ turn' = turn
    BY <1>13 DEF Crash, Goto, Work
  <2>3. DOMAIN batch'[d] = {}
    BY <2>2
  <2>4. \A e \in Daemon \ {d} : \A i \in DOMAIN batch[e] : i \in Nat /\ i + k[e] = i
    BY LenProperties DEF Work
  <2> HIDE DEF k
  <2>5. \A e \in Daemon : \A i \in DOMAIN batch'[e] :
          /\ i \in Nat
          /\ i + k[e] \in DOMAIN batch[e]
          /\ batch'[e][i] = batch[e][i + k[e]]
          /\ (i > 1 \/ pc'[e] = "task") => turn'[batch'[e][i].run] = "none"
    BY <2>2, <2>3, <2>4 DEF Hands, RunHasOneExecutor
  <2> QED
    BY <2>1, <2>5, HandsShift
<1> QED
  BY <1>1, <1>2, <1>3, <1>4, <1>5, <1>7, <1>8, <1>9, <1>10, <1>11, <1>12, <1>13
  DEF DaemonStep

(* A Stop hook's step puts no run in two hands.                             *)
LEMMA HookHands ==
  ASSUME TypeOK, Work, Hands, [Next]_svars, NEW h \in Hook, HookStep(h)
  PROVE  Hands'
<1> USE SystemAssumption
<1>1. batch' = batch
  BY DEF HookStep, BeginSweep, EndSweep, HookAcquires, HookGivesUp
<1>2. \A e \in Daemon : pc'[e] = pc[e]
  BY DEF HookStep, BeginSweep, EndSweep, HookAcquires, HookGivesUp, Goto, Work
<1>3. \A r \in Recorded : turn'[r] = turn[r]
  <2>1. CASE turn' = turn
    BY <2>1
  <2>2. CASE HookAcquires(h)
    BY <2>2, HookTurns DEF FreshRun, Recorded, Work
  <2> QED
    BY <2>1, <2>2 DEF HookStep, BeginSweep, EndSweep, HookGivesUp
<1>4. \A e \in Daemon : \A i \in DOMAIN batch[e] : batch[e][i].run \in Recorded
  BY DEF Hands, RunHasOneExecutor
<1> QED
  BY <1>1, <1>2, <1>3, <1>4, HandsIdle

(* No step of the system puts a run in two hands.                           *)
LEMMA HandsStep == SystemInv /\ [SystemNext]_vars => Hands'
<1> SUFFICES ASSUME TypeOK, Work, Hands, [SystemNext]_vars PROVE Hands'
  BY DEF SystemInv
<1>0. [Next]_svars
  BY StoreStep
<1>1. CASE UNCHANGED <<pc, batch, turn>>
  BY <1>0, <1>1, HandsIdle
<1>2. CASE Passes \/ ClientOpens
  BY <1>1, <1>2 DEF Passes, ClientOpens, pvars
<1>3. CASE \E d \in Daemon : DaemonStep(d) \/ Crash(d)
  BY <1>0, <1>3, DaemonHands
<1>4. CASE \E h \in Hook : HookStep(h)
  BY <1>0, <1>4, HookHands
<1>5. CASE \E r \in Run : TurnStep(r)
  <2>1. PICK r \in Run : TurnStep(r)
    BY <1>5
  <2>2. CASE TurnReports(r)
    BY <1>1, <2>2 DEF TurnReports, pvars
  <2>3. CASE TurnEnds(r)
    <3>1. UNCHANGED <<pc, batch>> /\ \A q \in Run : turn[q] = "none" => turn'[q] = "none"
      BY <2>3 DEF TurnEnds, Work
    <3>2. \A e \in Daemon : \A i \in DOMAIN batch[e] : batch[e][i].run \in Run
      BY DEF Hands, RunHasOneExecutor, Recorded
    <3> QED
      BY <1>0, <3>1, <3>2, HandsIdle
  <2> QED
    BY <2>1, <2>2, <2>3 DEF TurnStep
<1>6. CASE \E t \in Task : UserStep(t)
  BY <1>1, <1>6 DEF UserStep, UserCreates, UserUpdates, UserCancels, UserBinds, pvars
<1>7. CASE UNCHANGED vars
  BY <1>1, <1>7 DEF vars, pvars
<1> QED
  BY <1>2, <1>3, <1>4, <1>5, <1>6, <1>7 DEF SystemNext

-----------------------------------------------------------------------------
(* The composed system *)

(* The invariant holds of the empty database and idle processes.            *)
LEMMA SystemInitInv == SystemInit => SystemInv
<1> SUFFICES ASSUME SystemInit PROVE SystemInv
  OBVIOUS
<1>1. TypeOK
  BY DEF SystemInit, Init, TypeOK
<1>2. Work
  BY EmptySeq, SystemAssumption DEF SystemInit, Work, Busy
<1>3. Hands
  <2>1. \A d \in Daemon : batch[d] = <<>> /\ DOMAIN batch[d] = {}
    BY DEF SystemInit
  <2> QED
    BY <2>1 DEF Hands, RunHasOneExecutor, Handled
<1> QED
  BY <1>1, <1>2, <1>3 DEF SystemInv

(* The types of the processes, what a daemon knows at each place of its      *)
(* round, and who holds which run, in every reachable state.                 *)
THEOREM SystemInvariant == SystemSpec => []SystemInv
<1>1. SystemInv /\ [SystemNext]_vars => SystemInv'
  BY StoreStep, TypeStep, WorkStep, HandsStep DEF SystemInv
<1> QED
  BY SystemInitInv, <1>1, PTL DEF SystemSpec

(* The daemons, hooks, turns and users, with their crashes and retries, only *)
(* ever make the steps of the store: each theorem about the store holds of   *)
(* the composed system.                                                      *)
THEOREM SystemImplementsStore == SystemSpec => StoreSpec
<1>1. SystemInit => Init
  BY DEF SystemInit
<1>2. SystemInv /\ [SystemNext]_vars => [Next]_svars
  BY StoreStep DEF SystemInv
<1> QED
  BY <1>1, <1>2, SystemInvariant, PTL DEF SystemSpec, StoreSpec, Spec

(* No two processes ever hold the same run.                                  *)
THEOREM OneExecutorPerRun == SystemSpec => []RunHasOneExecutor
<1>1. SystemInv => RunHasOneExecutor
  BY DEF SystemInv, Hands
<1> QED
  BY <1>1, SystemInvariant, PTL

(* The store's invariant holds in the composed system.                       *)
THEOREM SystemKeepsStore == SystemSpec => [](StoreInv /\ CurrentRunOwned /\ OrphansExplained)
<1>1. StoreInv => CurrentRunOwned /\ OrphansExplained
  BY DEF StoreInv, Ownership
<1> QED
  BY <1>1, StoreInvariant, SystemImplementsStore, PTL DEF StoreSpec

-----------------------------------------------------------------------------
(* Where the processes are *)

(* What SystemTypeOK says beyond SystemInv: a sweep, a batch or a result is  *)
(* there only at the places of a round that need it.                         *)
Places ==
  /\ spent \in [DOMAIN Budget -> Nat]
  /\ updated \subseteq Task /\ resumes \in [Task -> Nat]
  /\ \A p \in Proc : sweep[p] # Null <=> pc[p] = "sweep"
  /\ \A d \in Daemon : batch[d] # <<>> => pc[d] \in Busy
  /\ \A d \in Daemon : result[d] # Null => pc[d] \in {"rebind", "report"}

LEMMA PlacesType == TypeOK /\ Work /\ Places => SystemTypeOK
BY ResultAssumption DEF Work, Places, SystemTypeOK, Busy

(* The calls that are not part of a sweep leave every sweep in progress.     *)
LEMMA SweepKept ==
  ASSUME NEW t,
         \/ OpenStore
         \/ \E args, th, c : CreateTask(t, args, th, c)
         \/ \E st : UpdateStatus(t, st)
         \/ RequestCancel(t)
         \/ \E th, resume : BindTaskThread(t, th, resume)
         \/ \E th : ReplaceTaskThread(t, th)
         \/ \E claim, order, c, limit, th : Acquires(claim, order, c, limit, th)
         \/ \E rid, st, d, th, src, c : CompleteIteration(t, rid, st, d, th, src, c)
         \/ \E st : AbortCurrentRun(t, st)
  PROVE  sweep' = sweep
<1>1. ASSUME NEW claim, NEW order, NEW c, NEW limit, NEW th, Acquires(claim, order, c, limit, th)
      PROVE  sweep' = sweep
  BY <1>1 DEF Acquires, AcquireDueTasks
<1>2. ASSUME NEW rid, NEW st, NEW d, NEW th, NEW src, NEW c,
             CompleteIteration(t, rid, st, d, th, src, c)
      PROVE  sweep' = sweep
  BY <1>2 DEF CompleteIteration, CompleteAgain, CompleteRun, CompleteBare, svars
<1>3. CASE OpenStore \/ RequestCancel(t) \/ \E st : UpdateStatus(t, st) \/ AbortCurrentRun(t, st)
  BY <1>3 DEF OpenStore, RequestCancel, UpdateStatus, AbortCurrentRun
<1>4. CASE \E args, th, c : CreateTask(t, args, th, c)
  BY <1>4 DEF CreateTask
<1>5. CASE \E th : ReplaceTaskThread(t, th) \/ \E resume : BindTaskThread(t, th, resume)
  BY <1>5 DEF ReplaceTaskThread, BindTaskThread
<1> QED
  BY <1>1, <1>2, <1>3, <1>4, <1>5

(* A process that moves on, and carries what its new place needs.            *)
LEMMA PlacesGoto ==
  ASSUME Work, Places, NEW p \in Proc, NEW label, Goto(p, label),
         sweep'[p] # Null <=> label = "sweep",
         \A q \in Proc \ {p} : sweep'[q] = sweep[q],
         p \in Daemon => /\ batch'[p] # <<>> => label \in Busy
                         /\ result'[p] # Null => label \in {"rebind", "report"},
         \A d \in Daemon \ {p} : batch'[d] = batch[d] /\ result'[d] = result[d],
         UNCHANGED <<updated, resumes>>, spent' \in [DOMAIN Budget -> Nat]
  PROVE  Places'
<1>1. pc'[p] = label /\ \A q \in Proc \ {p} : pc'[q] = pc[q]
  BY DEF Goto, Work
<1>2. p \notin Daemon => \A d \in Daemon : d \in Proc \ {p}
  BY SystemAssumption
<1>3. \A d \in Daemon \ {p} : pc'[d] = pc[d]
  BY <1>1, SystemAssumption
<1> QED
  BY <1>1, <1>3 DEF Places

(* Spending keeps the type of what is spent.                                 *)
LEMMA SpendType ==
  ASSUME Places, NEW b, Spend(b)
  PROVE  spent' \in [DOMAIN Budget -> Nat]
<1>1. spent \in [DOMAIN Budget -> Nat] /\ spent' = [spent EXCEPT ![b] = @ + 1]
  BY DEF Places, Spend
<1> HIDE DEF Spend
<1>2. \A n \in Nat : n + 1 \in Nat
  OBVIOUS
<1> QED
  BY <1>1, <1>2

(* The steps of one process that leave its batch and its result alone.       *)
LEMMA PlacesSweep ==
  ASSUME TypeOK, Work, Places, NEW p \in Proc,
         BeginSweep(p) \/ EndSweep(p)
  PROVE  Places'
<1>1. CASE BeginSweep(p)
  <2>1. PICK c \in Stamp : ExpireRuns(p, c)
    BY <1>1 DEF BeginSweep
  <2>2. c # Null
    BY ConstantsAssumption DEF Stamp
  <2>3. sweep'[p] # Null /\ \A q \in Proc \ {p} : sweep'[q] = sweep[q]
    BY <2>1, <2>2 DEF ExpireRuns, TypeOK
  <2>4. p \in Daemon => batch[p] = <<>> /\ result[p] = Null
    BY <1>1 DEF BeginSweep, Places, Busy
  <2> QED
    BY <1>1, <2>3, <2>4, PlacesGoto DEF BeginSweep, Places
<1>2. CASE EndSweep(p)
  <2>1. sweep'[p] = Null /\ \A q \in Proc \ {p} : sweep'[q] = sweep[q]
    BY <1>2 DEF EndSweep, ExpireTasks, TypeOK
  <2>2. p \in Daemon => batch[p] = <<>> /\ result[p] = Null
    BY <1>2 DEF EndSweep, Places, Busy
  <2> QED
    BY <1>2, <2>1, <2>2, PlacesGoto DEF EndSweep, Places
<1> QED
  BY <1>1, <1>2

(* A step of a daemon that is in no sweep.                                   *)
LEMMA PlacesDaemon ==
  ASSUME Work, Places, NEW d \in Daemon, NEW label, Goto(d, label), pc[d] # "sweep",
         label # "sweep", sweep' = sweep,
         batch'[d] # <<>> => label \in Busy,
         result'[d] # Null => label \in {"rebind", "report"},
         \A e \in Daemon \ {d} : batch'[e] = batch[e] /\ result'[e] = result[e],
         UNCHANGED <<spent, updated, resumes>>
  PROVE  Places'
<1>1. d \in Proc
  BY SystemAssumption
<1>2. sweep'[d] = Null
  BY <1>1 DEF Places
<1>3. spent' \in [DOMAIN Budget -> Nat]
  BY DEF Places
<1> QED
  BY <1>1, <1>2, <1>3, PlacesGoto

(* A daemon is where its sweep, its batch and its result say.                *)
LEMMA DaemonPlaces ==
  ASSUME TypeOK, Work, Places, NEW d \in Daemon, DaemonStep(d) \/ Crash(d)
  PROVE  Places'
<1>0. d \in Proc
  BY SystemAssumption
<1>1. CASE BeginSweep(d) \/ EndSweep(d)
  BY <1>0, <1>1, PlacesSweep
<1>2. CASE DaemonAcquires(d)
  <2>1. PICK c \in Stamp : \E S \in Batches(Due(c, Null), Limit) :
          \E claim \in Injection(S, FreshRun), order \in Orders(S) :
            /\ Acquires(claim, order, c, Limit, Null)
            /\ batch' = [batch EXCEPT ![d] = Snapshots(claim, order)]
            /\ Goto(d, IF S = {} THEN "idle" ELSE "task")
    BY <1>2 DEF DaemonAcquires
  <2>2. PICK S \in Batches(Due(c, Null), Limit) :
          \E claim \in Injection(S, FreshRun), order \in Orders(S) :
            /\ Acquires(claim, order, c, Limit, Null)
            /\ batch' = [batch EXCEPT ![d] = Snapshots(claim, order)]
            /\ Goto(d, IF S = {} THEN "idle" ELSE "task")
    BY <2>1
  <2>3. PICK claim \in Injection(S, FreshRun), order \in Orders(S) :
            /\ Acquires(claim, order, c, Limit, Null)
            /\ batch' = [batch EXCEPT ![d] = Snapshots(claim, order)]
            /\ Goto(d, IF S = {} THEN "idle" ELSE "task")
    BY <2>2
  <2>4. batch'[d] = Snapshots(claim, order)
        /\ \A e \in Daemon \ {d} : batch'[e] = batch[e]
    BY <2>3 DEF Work
  <2>5. S = {} => batch'[d] = <<>>
    <3> SUFFICES ASSUME S = {} PROVE batch'[d] = <<>>
      OBVIOUS
    <3>1. order \in [1..0 -> {}]
      BY FS_EmptySet DEF Orders, Bijection, Injection
    <3>2. DOMAIN order = {}
      BY <3>1
    <3> QED
      BY <2>4, <3>2 DEF Snapshots
  <2>6. result[d] = Null
    BY <1>2 DEF DaemonAcquires, Places
  <2>7. sweep' = sweep
    BY <2>3, SweepKept
  <2> QED
    BY <1>2, <2>3, <2>4, <2>5, <2>6, <2>7, PlacesDaemon DEF DaemonAcquires, Busy
<1>3. ASSUME pc[d] \in Busy, sweep' = sweep, NextJob(d), result'[d] = Null,
             \A e \in Daemon \ {d} : result'[e] = result[e],
             UNCHANGED <<spent, updated, resumes>>
      PROVE  Places'
  <2>1. batch'[d] = Tail(batch[d]) /\ \A e \in Daemon \ {d} : batch'[e] = batch[e]
    BY <1>3 DEF NextJob, Work
  <2>2. Len(batch[d]) = 1 => Tail(batch[d]) = <<>>
    <3> SUFFICES ASSUME Len(batch[d]) = 1 PROVE Tail(batch[d]) = <<>>
      OBVIOUS
    <3>1. Tail(batch[d]) \in Seq(Snapshot) /\ Len(Tail(batch[d])) = 0
      BY <1>3, JobFacts, HeadTailProperties
    <3> QED
      BY <3>1, EmptySeq
  <2> DEFINE label == IF Len(batch[d]) = 1 THEN "idle" ELSE "task"
  <2>3. Goto(d, label) /\ (batch'[d] # <<>> => label \in Busy) /\ label # "sweep"
        /\ pc[d] # "sweep"
    BY <1>3, <2>1, <2>2 DEF NextJob, Busy
  <2> HIDE DEF label
  <2> QED
    BY <1>3, <2>1, <2>3, PlacesDaemon
<1>4. CASE PreflightBlocks(d)
  <2>1. result[d] = Null
    BY <1>4 DEF PreflightBlocks, Places
  <2>2. sweep' = sweep
    BY <1>4, SweepKept DEF PreflightBlocks
  <2> QED
    BY <1>3, <1>4, <2>1, <2>2 DEF PreflightBlocks, Busy
<1>5. CASE TurnBegins(d)
  <2>1. result[d] = Null
    BY <1>5 DEF TurnBegins, Places
  <2> QED
    BY <1>5, <2>1, PlacesDaemon DEF TurnBegins, Busy, svars
<1>6. ASSUME NEW res, Returns(d, res), pc[d] \in Busy
      PROVE  Places'
  <2>1. PICK label \in {"rebind", "report"} : Goto(d, label)
    BY <1>6 DEF Returns
  <2>2. \A e \in Daemon \ {d} : result'[e] = result[e]
    BY <1>6 DEF Returns, Work
  <2> QED
    BY <1>6, <2>1, <2>2, PlacesDaemon DEF Returns, Busy, svars
<1>7. CASE RunnerSkipsTurn(d) \/ TurnReturns(d) \/ TurnRaises(d)
  BY <1>6, <1>7 DEF RunnerSkipsTurn, TurnReturns, TurnRaises, Busy
<1>8. CASE Rebind(d)
  <2>1. sweep' = sweep
    BY <1>8, SweepKept DEF Rebind
  <2> QED
    BY <1>8, <2>1, PlacesDaemon DEF Rebind, Busy
<1>9. CASE Report(d)
  <2>1. sweep' = sweep
    BY <1>9, SweepKept DEF Report
  <2>2. result'[d] = Null /\ \A e \in Daemon \ {d} : result'[e] = result[e]
    BY <1>9 DEF Report, Work
  <2> QED
    BY <1>3, <1>9, <2>1, <2>2 DEF Report, Busy
<1>10. CASE Restart(d)
  <2>1. batch[d] = <<>> /\ result[d] = Null
    BY <1>10 DEF Restart, Places, Busy
  <2>2. sweep' = sweep
    BY <1>10, SweepKept DEF Restart
  <2> QED
    BY <1>10, <2>1, <2>2, PlacesDaemon DEF Restart
<1>11. CASE Crash(d)
  <2>1. sweep'[d] = Null /\ \A q \in Proc \ {d} : sweep'[q] = sweep[q]
    BY <1>0, <1>11 DEF Crash, AbandonSweep, TypeOK, Places, svars
  <2>2. spent' \in [DOMAIN Budget -> Nat]
    BY <1>11, SpendType DEF Crash
  <2>3. /\ batch'[d] = <<>> /\ result'[d] = Null
        /\ \A e \in Daemon \ {d} : batch'[e] = batch[e] /\ result'[e] = result[e]
    BY <1>11 DEF Crash, Work
  <2> QED
    BY <1>0, <1>11, <2>1, <2>2, <2>3, PlacesGoto DEF Crash
<1> QED
  BY <1>1, <1>2, <1>4, <1>5, <1>7, <1>8, <1>9, <1>10, <1>11 DEF DaemonStep

(* A Stop hook is where its sweep says.                                      *)
LEMMA HookPlaces ==
  ASSUME TypeOK, Work, Places, NEW h \in Hook, HookStep(h)
  PROVE  Places'
<1>0. h \in Proc /\ h \notin Daemon
  BY SystemAssumption
<1>1. CASE BeginSweep(h) \/ EndSweep(h)
  BY <1>0, <1>1, PlacesSweep
<1>2. CASE HookAcquires(h)
  <2>1. sweep' = sweep
    BY <1>2, SweepKept DEF HookAcquires
  <2>2. sweep[h] = Null
    BY <1>0, <1>2 DEF HookAcquires, Places
  <2> QED
    BY <1>0, <1>2, <2>1, <2>2, PlacesGoto DEF HookAcquires, Places
<1>3. CASE HookGivesUp(h)
  <2>1. sweep'[h] = Null /\ \A q \in Proc \ {h} : sweep'[q] = sweep[q]
    BY <1>0, <1>3 DEF HookGivesUp, AbandonSweep, TypeOK, Places, svars
  <2> QED
    BY <1>0, <1>3, <2>1, PlacesGoto DEF HookGivesUp, Places
<1> QED
  BY <1>1, <1>2, <1>3 DEF HookStep

(* Every step of the system keeps the processes where their state says.     *)
LEMMA PlacesStep == TypeOK /\ Work /\ Places /\ [SystemNext]_vars => Places'
<1> SUFFICES ASSUME TypeOK, Work, Places, [SystemNext]_vars PROVE Places'
  OBVIOUS
<1>1. CASE UNCHANGED <<sweep, pc, batch, result, spent, updated, resumes>>
  BY <1>1 DEF Places
<1>2. CASE Passes \/ ClientOpens
  BY <1>1, <1>2, SweepKept DEF Passes, Tick, ClientOpens, pvars
<1>3. CASE \E d \in Daemon : DaemonStep(d) \/ Crash(d)
  BY <1>3, DaemonPlaces
<1>4. CASE \E h \in Hook : HookStep(h)
  BY <1>4, HookPlaces
<1>5. CASE \E r \in Run : TurnStep(r)
  <2>1. sweep' = sweep
    BY <1>5, SweepKept DEF TurnStep, TurnReports, TurnEnds, svars
  <2> QED
    BY <1>1, <1>5, <2>1 DEF TurnStep, TurnReports, TurnEnds, pvars
<1>6. ASSUME NEW t \in Task, UserStep(t)
      PROVE  Places'
  <2>1. sweep' = sweep
    BY <1>6, SweepKept DEF UserStep, UserCreates, UserUpdates, UserCancels, UserBinds
  <2>2. UNCHANGED <<pc, batch, result>>
    BY <1>6 DEF UserStep, UserCreates, UserUpdates, UserCancels, UserBinds, pvars
  <2>3. updated' \subseteq Task
    BY <1>6 DEF UserStep, UserCreates, UserUpdates, UserCancels, UserBinds, pvars, Places
  <2>5. resumes' \in [Task -> Nat]
    BY <1>6 DEF UserStep, UserCreates, UserUpdates, UserCancels, UserBinds, CountsResume,
                pvars, Places
  <2>4. spent' \in [DOMAIN Budget -> Nat]
    BY <1>6, SpendType DEF UserStep, UserCreates, UserUpdates, UserCancels, UserBinds, pvars, Places
  <2> QED
    BY <2>1, <2>2, <2>3, <2>4, <2>5 DEF Places
<1>7. CASE UNCHANGED vars
  BY <1>1, <1>7 DEF vars, svars, pvars
<1> QED
  BY <1>2, <1>3, <1>4, <1>5, <1>6, <1>7 DEF SystemNext

(* At the start no process holds anything.                                   *)
LEMMA SystemInitPlaces == SystemInit => Places
BY DEF SystemInit, Init, Places

(* Every variable of the composed system has its type, and a process holds a *)
(* sweep, a batch or a result exactly where its round says so.               *)
THEOREM SystemTypes == SystemSpec => []SystemTypeOK
<1>1. SystemInv /\ Places /\ [SystemNext]_vars => Places'
  BY PlacesStep DEF SystemInv
<1>2. SystemInv /\ Places => SystemTypeOK
  BY PlacesType DEF SystemInv
<1> QED
  BY <1>1, <1>2, SystemInitPlaces, SystemInvariant, PTL DEF SystemSpec

=============================================================================
