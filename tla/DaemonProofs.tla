--------------------------- MODULE DaemonProofs ---------------------------
(***************************************************************************)
(* Launcher and DaemonManager: whose child a daemon is, which daemons the  *)
(* pid files and the answers name, that a directory has one daemon at      *)
(* most, and what the clean-up of a launcher ends and leaves.              *)
(***************************************************************************)
EXTENDS LauncherProofs, FiniteSetTheorems

-----------------------------------------------------------------------------
(* Ageing: what the process table undergoes but for births *)

(* From T to U processes die, go and are adopted.  Only the children of C    *)
(* change their parent, and only they, orphans and strangers go.             *)
Ages(T, U, C) ==
  \A p \in Pid :
    IF U[p] = Null
    THEN T[p] = Null \/ T[p].kind = "other" \/ T[p].parent \in C \cup {Null}
    ELSE /\ T[p] # Null
         /\ U[p].kind = T[p].kind /\ U[p].by = T[p].by
         /\ U[p].place = T[p].place /\ U[p].db = T[p].db
         /\ U[p].live => T[p].live
         /\ U[p].parent = T[p].parent \/ (T[p].parent \in C /\ U[p].parent = Null)

LEMMA DeadAges ==
  ASSUME os \in Tables, NEW P, \A p \in P : Exists(p)
  PROVE  Ages(os, Dead(P), {}) /\ \A p \in P \cap Pid : Dead(P)[p] = Null \/ ~Dead(P)[p].live
<1> SUFFICES ASSUME NEW p \in Pid
             PROVE  /\ IF Dead(P)[p] = Null
                       THEN os[p] = Null \/ os[p].kind = "other" \/ os[p].parent \in {Null}
                       ELSE /\ os[p] # Null
                            /\ Dead(P)[p].kind = os[p].kind /\ Dead(P)[p].by = os[p].by
                            /\ Dead(P)[p].place = os[p].place /\ Dead(P)[p].db = os[p].db
                            /\ Dead(P)[p].live => os[p].live
                            /\ Dead(P)[p].parent = os[p].parent
                    /\ p \in P => Dead(P)[p] = Null \/ ~Dead(P)[p].live
  BY DEF Ages
<1>1. CASE p \notin P
  BY <1>1 DEF Dead
<1>2. CASE p \in P
  <2>1. os[p] \in Process /\ os[p] # Null
    BY <1>2 DEF Tables, Exists
  <2>2. CASE os[p].parent = Null
    BY <1>2, <2>1, <2>2 DEF Dead
  <2>3. CASE os[p].parent # Null
    <3>1. Dead(P)[p] = [os[p] EXCEPT !.live = FALSE]
      BY <1>2, <2>3 DEF Dead
    <3> QED
      BY <2>1, <3>1, DeadProcess, NullAssumption
  <2> QED
    BY <2>2, <2>3
<1> QED
  BY <1>1, <1>2

LEMMA ReapedAges ==
  ASSUME NEW c
  PROVE  Ages(os, Reaped(c), {c})
BY DEF Ages, Reaped, Exists

LEMMA OrphanedAges ==
  ASSUME NEW T \in Tables, NEW c
  PROVE  /\ Ages(T, Orphaned(T, c), {c})
         /\ \A p \in Pid : T[p] = Null => Orphaned(T, c)[p] = Null
<1> SUFFICES ASSUME NEW p \in Pid
             PROVE  /\ IF Orphaned(T, c)[p] = Null
                       THEN T[p] = Null \/ T[p].kind = "other" \/ T[p].parent \in {c, Null}
                       ELSE /\ T[p] # Null
                            /\ Orphaned(T, c)[p].kind = T[p].kind
                            /\ Orphaned(T, c)[p].by = T[p].by
                            /\ Orphaned(T, c)[p].place = T[p].place
                            /\ Orphaned(T, c)[p].db = T[p].db
                            /\ Orphaned(T, c)[p].live => T[p].live
                            /\ \/ Orphaned(T, c)[p].parent = T[p].parent
                               \/ T[p].parent = c /\ Orphaned(T, c)[p].parent = Null
                    /\ T[p] = Null => Orphaned(T, c)[p] = Null
  BY DEF Ages
<1>1. CASE T[p] = Null \/ T[p].parent # c \/ ~T[p].live
  BY <1>1 DEF Orphaned
<1>2. CASE T[p] # Null /\ T[p].parent = c /\ T[p].live
  <2>1. Orphaned(T, c)[p] = [T[p] EXCEPT !.parent = Null] /\ T[p] \in Process
    BY <1>2 DEF Orphaned, Tables
  <2> QED
    BY <1>2, <2>1, AdoptedProcess
<1> QED
  BY <1>1, <1>2

LEMMA AgesTwice ==
  ASSUME NEW T, NEW U, NEW V, NEW C, NEW D, Ages(T, U, C), Ages(U, V, D)
  PROVE  Ages(T, V, C \cup D)
BY DEF Ages

-----------------------------------------------------------------------------
(* What a step does to each process *)

(* A daemon in its grace period is the child of the call that started it,    *)
(* and serves what that call asked for.                                     *)
Child(c, q) ==
  /\ q # Null /\ q.kind = "loopd" /\ q.by = c /\ q.parent = c
  /\ q.place = call[c].place /\ q.db = call[c].db

Children == \A c \in Caller : In(c, "grace") => Child(c, os[call[c].pid])

Kept(p) ==
  /\ os[p] # Null /\ os'[p] # Null
  /\ os'[p].kind = os[p].kind /\ os'[p].by = os[p].by
  /\ os'[p].place = os[p].place /\ os'[p].db = os[p].db
  /\ os'[p].live => os[p].live

Gone(p) == os[p] # Null /\ os'[p] = Null /\ (os[p].kind = "loopd" => p \in freed')

Absent(p) == os[p] = Null /\ os'[p] = Null

Stranger(p) ==
  /\ os[p] = Null /\ os'[p] # Null /\ p \in freed
  /\ os'[p].kind = "other" /\ os'[p].by = Null /\ os'[p].place = Null

Born(p) ==
  \E c \in Caller :
    /\ Spawns(c) /\ UNCHANGED lvars
    /\ os[p] = Null /\ os'[p] = Loopd(c, call[c].place, call[c].db)
    /\ In(c, "grace")' /\ call'[c].pid = p

(* The daemon of a call that goes on stays its child.                       *)
Spared ==
  \A c \in Caller : In(c, "grace") /\ call'[c] = call[c] =>
    os'[call[c].pid] # Null /\ os'[call[c].pid].parent = c

Fates ==
  /\ freed \subseteq freed'
  /\ \A p \in Pid : Kept(p) \/ Gone(p) \/ Absent(p) \/ Stranger(p) \/ Born(p)
  /\ Spared

LEMMA ChildPid ==
  ASSUME TypesInv, Children, NEW c \in Caller, In(c, "grace")
  PROVE  /\ call[c] \in Call /\ call[c].pid \in Pid /\ Child(c, os[call[c].pid])
         /\ call[c].place \in Place /\ call[c].db \in Place
<1>1. call[c] \in Call /\ call[c] # Null /\ call[c].stage = "grace"
  BY DEF TypesInv, LauncherTypeOK, DaemonTypeOK, In
<1>2. call[c].pid \in Pid
  BY <1>1 DEF TypesInv, LauncherTypeOK, DaemonTypeOK, Call
<1> QED
  BY <1>1, <1>2 DEF Children, TypesInv, CallsAre, Asking

(* A step of an ageing process table spares the children of C only if their  *)
(* calls end with it.                                                       *)
LEMMA AgesFates ==
  ASSUME TypesInv, Children, NEW T \in Tables, NEW C \in SUBSET Caller,
         Ages(os, T, C), OsBecomes(T),
         \A c \in C : In(c, "grace") => call'[c] # call[c]
  PROVE  Fates
<1>1. os' = T /\ freed \subseteq freed'
  BY DEF OsBecomes
<1>2. \A p \in Pid : Kept(p) \/ Gone(p) \/ Absent(p)
  BY <1>1 DEF OsBecomes, Ages, Kept, Gone, Absent, Exists
<1>3. Spared
  <2> SUFFICES ASSUME NEW c \in Caller, In(c, "grace"), call'[c] = call[c]
               PROVE  os'[call[c].pid] # Null /\ os'[call[c].pid].parent = c
    BY DEF Spared
  <2>1. c \notin C /\ c # Null
    BY DaemonAssumption
  <2>2. call[c].pid \in Pid /\ Child(c, os[call[c].pid])
    BY ChildPid
  <2> QED
    BY <1>1, <2>1, <2>2 DEF Ages, Child
<1> QED
  BY <1>1, <1>2, <1>3 DEF Fates

LEMMA SameFates ==
  ASSUME TypesInv, Children, UNCHANGED <<os, freed>>
  PROVE  Fates
<1>1. \A c \in Caller : In(c, "grace") => Child(c, os[call[c].pid])
  BY ChildPid
<1> QED
  BY <1>1 DEF Fates, Kept, Absent, Spared, Child

LEMMA OrphanedFates ==
  ASSUME TypesInv, Children, NEW c \in Caller, OsBecomes(Orphaned(os, c)),
         In(c, "grace") => call'[c] # call[c]
  PROVE  Fates
<1>1. os \in Tables
  BY DEF TypesInv, LauncherTypeOK, DaemonTypeOK, Tables
<1> DEFINE T == Orphaned(os, c)
<1>2. T \in Tables /\ Ages(os, T, {c}) /\ {c} \in SUBSET Caller
  BY <1>1, OrphanedTable, OrphanedAges
<1>3. OsBecomes(T)
  OBVIOUS
<1> HIDE DEF T
<1> QED
  BY <1>2, <1>3, AgesFates

LEMMA TuiFates ==
  ASSUME TypesInv, Children, NEW l \in Tui, TuiStep(l) \/ Interrupted(l) \/ Killed(l)
  PROVE  Fates
<1>0. l \in Caller /\ os \in Tables
  BY LauncherAssumption DEF TypesInv, LauncherTypeOK, DaemonTypeOK, Tables
<1>1. pc[l] # "ensure" => ~In(l, "grace")
  BY DEF TypesInv, LauncherTypeOK, In
<1>2. CASE \/ WritesTmp(l) \/ Replaces(l) \/ Chmods(l) \/ StartsServer(l) \/ UsesServer(l)
           \/ SkipsLoopd(l) \/ Compares(l) \/ Unlinks(l) \/ StopsServer(l) \/ ServerAnswers(l)
  BY <1>2, SameFates DEF WritesTmp, Replaces, Chmods, StartsServer, UsesServer,
     SkipsLoopd, Compares, Unlinks, StopsServer, ServerAnswers, dvars
<1>3. CASE OpensTui(l)
  <2>1. ~In(l, "grace") /\ OsBecomes(Reaped(l))
    BY <1>3 DEF OpensTui, In
  <2> DEFINE T == Reaped(l)
  <2>2. T \in Tables /\ Ages(os, T, {l}) /\ {l} \in SUBSET Caller
    BY <1>0, ReapedTable, ReapedAges
  <2> HIDE DEF T
  <2>3. OsBecomes(T)
    BY <2>1 DEF T
  <2> QED
    BY <2>1, <2>2, <2>3, AgesFates
<1>4. CASE Closes(l)
  <2>1. ~In(l, "grace")
    BY <1>1, <1>4 DEF Closes
  <2>2. CASE UNCHANGED <<os, freed>>
    BY <2>2, SameFates
  <2>3. CASE OsBecomes(Orphaned(os, l))
    BY <1>0, <2>1, <2>3, OrphanedFates
  <2> QED
    BY <1>4, <2>2, <2>3 DEF Closes
<1>5. CASE HaltsLoopd(l)
  <2> DEFINE P == {p \in Targets(l) : Alive(p)}
  <2>1. ~In(l, "grace") /\ OsBecomes(Orphaned(Dead(P), l))
    BY <1>1, <1>5 DEF HaltsLoopd
  <2>2. Dead(P) \in Tables /\ Ages(os, Dead(P), {})
    BY <1>0, DeadTable, DeadAges DEF Alive
  <2>3. Orphaned(Dead(P), l) \in Tables /\ Ages(Dead(P), Orphaned(Dead(P), l), {l})
    BY <2>2, OrphanedTable, OrphanedAges
  <2>4. Ages(os, Orphaned(Dead(P), l), {} \cup {l})
    BY <2>2, <2>3, AgesTwice
  <2> HIDE DEF P
  <2> QED
    BY <1>0, <2>1, <2>3, <2>4, AgesFates
<1>6. CASE Interrupted(l)
  <2>1. CASE UNCHANGED <<os, freed>>
    BY <2>1, SameFates
  <2>2. CASE pc[l] \in {"clear", "unlink", "stop", "halt"} /\ OsBecomes(Orphaned(os, l))
    BY <1>0, <1>1, <2>2, OrphanedFates
  <2>3. CASE CutOff(l) /\ OsBecomes(Orphaned(os, l))
    <3>1. In(l, "grace") => call'[l] # call[l]
      BY <1>0, <2>3, CutTypes DEF In
    <3> QED
      BY <1>0, <2>3, <3>1, OrphanedFates
  <2> QED
    BY <1>6, <2>1, <2>2, <2>3 DEF Interrupted
<1>7. CASE Killed(l)
  <2>1. OsBecomes(Orphaned(os, l)) /\ (In(l, "grace") => call'[l] # call[l])
    BY <1>0, <1>7, CutTypes DEF Killed, In
  <2> QED
    BY <1>0, <2>1, OrphanedFates
<1> QED
  BY <1>2, <1>3, <1>4, <1>5, <1>6, <1>7 DEF TuiStep

LEMMA ServerFates ==
  ASSUME TypesInv, Children, NEW s \in Server, ServerStep(s)
  PROVE  Fates
<1>1. CASE SessionEnds(s)
  <2>1. s \in Caller
    BY LauncherAssumption
  <2>2. OsBecomes(Orphaned(os, s)) /\ (In(s, "grace") => call'[s] # call[s])
    BY <1>1, <2>1, CutTypes DEF SessionEnds, In
  <2> QED
    BY <2>1, <2>2, OrphanedFates
<1>2. CASE SessionStarts(s) \/ OtherTool(s) \/ LoopCreate(s) \/ ChoosesStore(s) \/ Resolves(s)
  BY <1>2, SameFates DEF SessionStarts, OtherTool, LoopCreate, ChoosesStore, Resolves, dvars
<1> QED
  BY <1>1, <1>2 DEF ServerStep

(* The daemon that a spawn starts, and the reaping that goes with it.       *)
LEMMA SpawnFates ==
  ASSUME TypesInv, Children, NEW c \in Caller, Spawns(c), UNCHANGED lvars
  PROVE  /\ Fates
         /\ In(c, "spawn") /\ In(c, "grace")' /\ call'[c].pid \in Pid
         /\ call'[c].place = call[c].place /\ call'[c].db = call[c].db
         /\ \A d \in Caller \ {c} : call'[d] = call[d]
         /\ os[call'[c].pid] = Null
         /\ os'[call'[c].pid] = Loopd(c, call[c].place, call[c].db)
         /\ \A q \in Pid \ {call'[c].pid} : Kept(q) \/ Gone(q) \/ Absent(q)
<1>0. os \in Tables /\ call \in [Caller -> Call \cup {Null}]
  BY DEF TypesInv, LauncherTypeOK, DaemonTypeOK, Tables
<1>1. PICK p \in Pid :
        /\ ~Exists(p)
        /\ OsBecomes([Reaped(c) EXCEPT ![p] = Loopd(c, call[c].place, call[c].db)])
        /\ call' = [call EXCEPT ![c].stage = "grace", ![c].pid = p]
  BY DEF Spawns
<1>2. In(c, "spawn") /\ call[c] # Null
  BY DEF Spawns, In
<1>3. /\ call'[c] \in Call /\ call'[c].stage = "grace" /\ call'[c].pid = p
      /\ call'[c].place = call[c].place /\ call'[c].db = call[c].db
  BY <1>1, <1>2, CallAfter DEF TypesInv, LauncherTypeOK
<1>4. \A d \in Caller \ {c} : call'[d] = call[d]
  BY <1>0, <1>1
<1>5. In(c, "grace")'
  BY <1>3, NullAssumption DEF In
<1>6. /\ freed \subseteq freed'
      /\ os'[p] = Loopd(c, call[c].place, call[c].db)
      /\ \A q \in Pid \ {p} : os'[q] = Reaped(c)[q]
      /\ \A q \in Pid \ {p} : Exists(q) /\ os[q].kind = "loopd" /\ os'[q] = Null => q \in freed'
  <2>1. Reaped(c) \in [Pid -> Process \cup {Null}]
    BY <1>0, ReapedTable DEF Tables
  <2> QED
    BY <1>1, <2>1 DEF OsBecomes
<1>7. \A q \in Pid \ {p} : Kept(q) \/ Gone(q) \/ Absent(q)
  BY <1>6, ReapedAges DEF Ages, Kept, Gone, Absent, Exists
<1>8. Born(p)
  BY <1>1, <1>3, <1>5, <1>6 DEF Born, Exists
<1>9. Spared
  <2> SUFFICES ASSUME NEW d \in Caller, In(d, "grace"), call'[d] = call[d]
               PROVE  os'[call[d].pid] # Null /\ os'[call[d].pid].parent = d
    BY DEF Spared
  <2>1. d # c /\ d # Null /\ c # Null
    BY <1>2, DaemonAssumption DEF In
  <2>2. call[d].pid \in Pid /\ Child(d, os[call[d].pid])
    BY ChildPid
  <2>3. call[d].pid # p
    BY <1>1, <2>2 DEF Child, Exists
  <2> QED
    BY <1>6, <2>1, <2>2, <2>3, ReapedAges DEF Ages, Child
<1> QED
  BY <1>1, <1>2, <1>3, <1>4, <1>5, <1>6, <1>7, <1>8, <1>9 DEF Fates, Exists

LEMMA EnsuresFates ==
  ASSUME TypesInv, Children, NEW c \in Caller, CallStep(c)
  PROVE  Fates
<1>1. CASE Finds(c) \/ Misses(c) \/ Records(c)
  BY <1>1, SameFates DEF Finds, Misses, Records
<1>2. CASE Spawns(c)
  BY <1>2, SpawnFates DEF CallStep
<1>3. CASE ExitsAtOnce(c)
  <2> DEFINE p == call[c].pid
             T == [os EXCEPT ![p] = Null]
  <2>1. p \in Pid /\ Child(c, os[p])
    BY <1>3, ChildPid DEF ExitsAtOnce
  <2>2. os \in Tables /\ T \in Tables
    BY DEF TypesInv, LauncherTypeOK, DaemonTypeOK, Tables
  <2>3. Ages(os, T, {c})
    BY <2>1, <2>2 DEF Ages, Child, Tables
  <2>4. OsBecomes(T) /\ call'[c] = Null /\ call[c] # Null
    BY <1>3 DEF ExitsAtOnce, Returns, In, TypesInv, LauncherTypeOK, DaemonTypeOK
  <2> HIDE DEF T
  <2> QED
    BY <2>2, <2>3, <2>4, AgesFates
<1> QED
  BY <1>1, <1>2, <1>3 DEF CallStep, Ensures

LEMMA UnforeseenFates ==
  ASSUME TypesInv, Children, NEW p \in Pid, Unforeseen(p)
  PROVE  Fates
<1>0. os \in Tables
  BY DEF TypesInv, LauncherTypeOK, DaemonTypeOK, Tables
<1>1. CASE Dies(p)
  <2>1. Exists(p) /\ OsBecomes(Dead({p}))
    BY <1>1 DEF Dies, Alive
  <2> QED
    BY <1>0, <2>1, DeadTable, DeadAges, AgesFates
<1>2. \A c \in Caller : In(c, "grace") => call[c].pid \in Pid /\ Child(c, os[call[c].pid])
  BY ChildPid
<1>3. CASE p \in freed /\ StrangerTakes(p)
  BY <1>0, <1>2, <1>3 DEF StrangerTakes, Exists, Fates, Kept, Absent, Stranger, Spared, Child, Tables
<1>4. CASE StrangerLeaves(p)
  BY <1>0, <1>2, <1>4 DEF StrangerLeaves, Exists, Fates, Kept, Gone, Absent, Spared, Child, Tables
<1> QED
  BY <1>1, <1>3, <1>4 DEF Unforeseen

LEMMA StepFates ==
  ASSUME TypesInv, Children, [Next]_vars
  PROVE  Fates
BY TuiFates, ServerFates, EnsuresFates, UnforeseenFates, SameFates DEF Next, vars, dvars

-----------------------------------------------------------------------------
(* What a step does to the calls, the answers and the pid files *)

(* A call goes from spawn on, or writes.                                    *)
Turns(c) ==
  /\ UNCHANGED lvars
  /\ Misses(c) \/ Spawns(c) \/ ExitsAtOnce(c) \/ Records(c)

(* A call that has not got as far as its spawn begins, goes on or returns.   *)
Prepares(c) ==
  /\ ~In(c, "spawn") /\ ~In(c, "grace")
  /\ call'[c] = Null \/ call'[c].stage \in {"store", "resolve", "look"}

Moves(l) == TuiStep(l) \/ Interrupted(l) \/ Killed(l)

(* A call ends without an answer, with its caller or by an interrupt of it.  *)
Quits(c) == CutOff(c) /\ (c \in Server \/ Moves(c))

Courses ==
  /\ excused \subseteq excused'
  /\ pidFile' = pidFile \/ \E c \in Caller : Records(c) /\ UNCHANGED lvars
  /\ \A c \in Caller : call'[c] = call[c] \/ Turns(c) \/ Prepares(c) \/ Quits(c)
  /\ \A c \in Caller : \/ status'[c] = status[c] \/ (c \in Server /\ status'[c] = Null)
                       \/ UNCHANGED lvars /\ (Finds(c) \/ ExitsAtOnce(c) \/ Records(c))

LEMMA SameCourses ==
  ASSUME UNCHANGED <<pidFile, call, status, excused>>
  PROVE  Courses
BY DEF Courses

LEMMA CutCourses ==
  ASSUME TypesInv, NEW c \in Caller, Quits(c), pidFile' = pidFile,
         status' = status \/ (c \in Server /\ status' = [status EXCEPT ![c] = Null])
  PROVE  Courses
<1>1. excused \subseteq excused'
  BY DEF Quits, CutOff
<1>2. \A d \in Caller : call'[d] = call[d] \/ Quits(d)
  BY CutTypes DEF Quits
<1>3. \A d \in Caller : status'[d] = status[d] \/ (d \in Server /\ status'[d] = Null)
  BY DEF TypesInv, LauncherTypeOK, DaemonTypeOK
<1> QED
  BY <1>1, <1>2, <1>3 DEF Courses

(* One call changes and nothing else of these.                              *)
LEMMA PreparedCourses ==
  ASSUME TypesInv, NEW c \in Caller, Prepares(c), NEW k, call' = [call EXCEPT ![c] = k],
         UNCHANGED <<pidFile, status, excused>>
  PROVE  Courses
BY DEF Courses, TypesInv, LauncherTypeOK, DaemonTypeOK

LEMMA TuiCourses ==
  ASSUME TypesInv, NEW l \in Tui, TuiStep(l) \/ Interrupted(l) \/ Killed(l)
  PROVE  Courses
<1>0. l \in Caller /\ DOMAIN call = Caller
  BY LauncherAssumption DEF TypesInv, LauncherTypeOK, DaemonTypeOK
<1>1. CASE UNCHANGED <<pidFile, call, status, excused>>
  BY <1>1, SameCourses
<1>2. CASE ServerAnswers(l)
  <2>1. /\ call' = [call EXCEPT ![l] = Asks(dir[l], dir[l])] /\ pc[l] = "wait"
        /\ UNCHANGED <<pidFile, status, excused>>
    BY <1>2 DEF ServerAnswers
  <2>2. Prepares(l)
    BY <1>0, <2>1 DEF Prepares, In, Asks, TypesInv, LauncherTypeOK
  <2> QED
    BY <1>0, <2>1, <2>2, PreparedCourses
<1>3. CASE Killed(l)
  BY <1>0, <1>3, CutCourses DEF Killed, Quits, Moves
<1>4. CASE Interrupted(l)
  <2>1. CASE CutOff(l)
    BY <1>0, <1>4, <2>1, CutCourses DEF Interrupted, Quits, Moves
  <2> QED
    BY <1>1, <1>4, <2>1 DEF Interrupted
<1> QED
  BY <1>1, <1>2, <1>3, <1>4 DEF TuiStep, WritesTmp, Replaces, Chmods, StartsServer, UsesServer,
     SkipsLoopd, OpensTui, Closes, Compares, Unlinks, StopsServer, HaltsLoopd, dvars

LEMMA ServerCourses ==
  ASSUME TypesInv, NEW s \in Server, ServerStep(s)
  PROVE  Courses
<1>0. s \in Caller /\ call \in [Caller -> Call \cup {Null}]
  BY LauncherAssumption DEF TypesInv, LauncherTypeOK, DaemonTypeOK
<1>1. CASE SessionEnds(s)
  BY <1>0, <1>1, CutCourses DEF SessionEnds, Quits
<1>2. CASE SessionStarts(s) \/ OtherTool(s)
  BY <1>2, SameCourses DEF SessionStarts, OtherTool, dvars
<1>3. CASE LoopCreate(s)
  <2>1. Prepares(s)
    BY <1>0, <1>3 DEF LoopCreate, Prepares, In
  <2> QED
    BY <1>0, <1>3, <2>1, PreparedCourses DEF LoopCreate
<1>4. CASE ChoosesStore(s)
  <2>1. call[s] # Null /\ call[s].stage = "store" /\ EnvOrFile(s) \in Place
    BY <1>4, LauncherAssumption
    DEF ChoosesStore, In, EnvOrFile, TypesInv, LauncherTypeOK, Runtime
  <2>2. call'[s].stage = "resolve"
    BY <1>0, <1>4, <2>1, CallAfter DEF ChoosesStore, TypesInv, LauncherTypeOK
  <2>3. Prepares(s)
    BY <2>1, <2>2 DEF Prepares, In
  <2>4. UNCHANGED <<pidFile, status, excused>> /\ \A d \in Caller \ {s} : call'[d] = call[d]
    BY <1>0, <1>4 DEF ChoosesStore
  <2> QED
    BY <2>3, <2>4 DEF Courses
<1>5. CASE Resolves(s)
  <2>1. PICK k \in {Null, Asks(EnvOrFile(s), call[s].db)} : call' = [call EXCEPT ![s] = k]
    BY <1>5 DEF Resolves
  <2>2. Prepares(s)
    BY <1>0, <1>5, <2>1 DEF Resolves, Prepares, In, Asks
  <2> QED
    BY <1>0, <1>5, <2>1, <2>2, PreparedCourses DEF Resolves
<1> QED
  BY <1>1, <1>2, <1>3, <1>4, <1>5 DEF ServerStep

LEMMA EnsuresCourses ==
  ASSUME TypesInv, NEW c \in Caller, CallStep(c)
  PROVE  Courses
<1>0. /\ call \in [Caller -> Call \cup {Null}] /\ status \in [Caller -> Status \cup {Null}]
      /\ UNCHANGED lvars
  BY DEF TypesInv, LauncherTypeOK, DaemonTypeOK, CallStep
<1>1. excused \subseteq excused' /\ \A d \in Caller \ {c} : call'[d] = call[d] /\ status'[d] = status[d]
  BY <1>0 DEF CallStep, Ensures, Finds, Misses, Spawns, ExitsAtOnce, Records, Returns
<1>2. CASE Finds(c)
  <2>1. call'[c] = Null /\ pidFile' = pidFile
    BY <1>0, <1>2 DEF Finds, Returns
  <2>2. Prepares(c)
    BY <1>2, <2>1 DEF Finds, Prepares, In
  <2> QED
    BY <1>0, <1>1, <1>2, <2>1, <2>2 DEF Courses
<1>3. CASE Misses(c) \/ Spawns(c)
  <2>1. pidFile' = pidFile /\ status' = status
    BY <1>3 DEF Misses, Spawns
  <2> QED
    BY <1>0, <1>1, <1>3, <2>1 DEF Courses, Turns
<1>4. CASE ExitsAtOnce(c)
  <2>1. pidFile' = pidFile
    BY <1>4 DEF ExitsAtOnce
  <2> QED
    BY <1>0, <1>1, <1>4, <2>1 DEF Courses, Turns
<1>5. CASE Records(c)
  BY <1>0, <1>1, <1>5 DEF Courses, Turns
<1> QED
  BY <1>2, <1>3, <1>4, <1>5 DEF CallStep, Ensures

LEMMA StepCourses ==
  ASSUME TypesInv, [Next]_vars
  PROVE  Courses
<1>1. ASSUME NEW p \in Pid, Unforeseen(p) PROVE Courses
  BY <1>1, SameCourses DEF Unforeseen, Dies, StrangerTakes, StrangerLeaves
<1> QED
  BY <1>1, TuiCourses, ServerCourses, EnsuresCourses, SameCourses DEF Next, vars, dvars

-----------------------------------------------------------------------------
(* Which daemons the calls, the pid files and the answers name *)

(* The pid p still is, or was and has been freed, that of a daemon of x.     *)
Served(p, x) ==
  p \in freed \/ (os[p] # Null /\ os[p].kind = "loopd" /\ os[p].place = x)

StartedBy(p, c) ==
  p \in freed \/ (os[p] # Null /\ os[p].kind = "loopd" /\ os[p].by = c)

Files == \A x \in Place : pidFile[x] # Null => Served(pidFile[x], x)

Reports ==
  \A c \in Caller : status[c] # Null /\ status[c].started => StartedBy(status[c].pid, c)

NamesInv == TypesInv /\ Children /\ Files /\ Reports

(* A name of a daemon stays good until its pid is freed.                    *)
LEMMA NamesKept ==
  ASSUME Fates, NEW p \in Pid, NEW x
  PROVE  /\ Served(p, x) => Served(p, x)'
         /\ StartedBy(p, x) => StartedBy(p, x)'
BY DEF Fates, Served, StartedBy, Kept, Gone, Absent, Stranger, Born

LEMMA ChildrenStep ==
  ASSUME TypesInv, Children, [Next]_vars
  PROVE  Children'
<1> SUFFICES ASSUME NEW c \in Caller, In(c, "grace")'
             PROVE  Child(c, os[call[c].pid])'
  BY DEF Children
<1>0. Fates /\ Courses
  BY StepFates, StepCourses
<1>1. CASE call'[c] = call[c]
  <2>1. In(c, "grace")
    BY <1>1 DEF In
  <2>2. call[c].pid \in Pid /\ Child(c, os[call[c].pid])
    BY <2>1, ChildPid
  <2>3. os'[call[c].pid] # Null /\ os'[call[c].pid].parent = c
    BY <1>0, <1>1, <2>1 DEF Fates, Spared
  <2>4. Kept(call[c].pid)
    BY <1>0, <2>2, <2>3 DEF Fates, Gone, Absent, Stranger, Born, Child
  <2> QED
    BY <1>1, <2>2, <2>3, <2>4 DEF Child, Kept
<1>2. CASE call'[c] # call[c]
  <2>1. Turns(c)
    BY <1>0, <1>2, CutTypes DEF Courses, Prepares, Quits, In
  <2>2. ~Misses(c)
    <3> SUFFICES ASSUME Misses(c) PROVE FALSE
      OBVIOUS
    <3>1. call[c] # Null /\ call' = [call EXCEPT ![c].stage = "spawn"]
      BY DEF Misses, In
    <3>2. call'[c].stage = "spawn"
      BY <3>1, CallAfter DEF TypesInv, LauncherTypeOK
    <3> QED
      BY <3>2 DEF In
  <2>3. ~ExitsAtOnce(c) /\ ~Records(c)
    BY DEF ExitsAtOnce, Records, Returns, In, TypesInv, LauncherTypeOK, DaemonTypeOK
  <2>4. Spawns(c) /\ UNCHANGED lvars
    BY <2>1, <2>2, <2>3 DEF Turns
  <2>5. /\ call'[c].pid \in Pid /\ c # Null
        /\ call'[c].place = call[c].place /\ call'[c].db = call[c].db
        /\ os'[call'[c].pid] = Loopd(c, call[c].place, call[c].db)
    BY <2>4, SpawnFates, DaemonAssumption
  <2>6. call[c].place \in Place /\ call[c].db \in Place
    BY <2>4 DEF Spawns, In, TypesInv, CallsAre, Asking
  <2>7. Loopd(c, call[c].place, call[c].db) # Null
    BY <2>6, LoopdProcess, NullAssumption
  <2> QED
    BY <2>5, <2>7 DEF Child, Loopd
<1> QED
  BY <1>1, <1>2

LEMMA FilesStep ==
  ASSUME TypesInv, Children, Files, [Next]_vars
  PROVE  Files'
<1> SUFFICES ASSUME NEW x \in Place, pidFile'[x] # Null
             PROVE  Served(pidFile[x], x)'
  BY DEF Files
<1>0. Fates /\ Courses
  BY StepFates, StepCourses
<1>1. CASE pidFile'[x] = pidFile[x]
  <2>1. pidFile[x] \in Pid /\ Served(pidFile[x], x)
    BY <1>1 DEF Files, TypesInv, LauncherTypeOK, DaemonTypeOK
  <2> QED
    BY <1>0, <1>1, <2>1, NamesKept DEF Served
<1>2. CASE pidFile'[x] # pidFile[x]
  <2>1. PICK c \in Caller : Records(c) /\ UNCHANGED lvars
    BY <1>0, <1>2 DEF Courses
  <2>2. pidFile'[x] = call[c].pid /\ x = call[c].place /\ os' = os
    BY <1>2, <2>1 DEF Records, TypesInv, LauncherTypeOK, DaemonTypeOK
  <2>3. Child(c, os[call[c].pid])
    BY <2>1, ChildPid DEF Records
  <2> QED
    BY <2>2, <2>3 DEF Served, Child
<1> QED
  BY <1>1, <1>2

LEMMA ReportsStep ==
  ASSUME TypesInv, Children, Reports, [Next]_vars
  PROVE  Reports'
<1> SUFFICES ASSUME NEW c \in Caller, status'[c] # Null, status'[c].started
             PROVE  StartedBy(status[c].pid, c)'
  BY DEF Reports
<1>0. Fates /\ Courses /\ status \in [Caller -> Status \cup {Null}]
  BY StepFates, StepCourses DEF TypesInv, LauncherTypeOK, DaemonTypeOK
<1>1. CASE status'[c] = status[c]
  <2>1. status[c].pid \in Pid /\ StartedBy(status[c].pid, c)
    BY <1>0, <1>1 DEF Reports, Status
  <2> QED
    BY <1>0, <1>1, <2>1, NamesKept DEF StartedBy
<1>2. CASE ExitsAtOnce(c) \/ Records(c)
  <2>1. status'[c].pid = call[c].pid
    BY <1>0, <1>2 DEF ExitsAtOnce, Records, Returns
  <2>2. call[c].pid \in Pid /\ Child(c, os[call[c].pid])
    BY <1>2, ChildPid DEF ExitsAtOnce, Records
  <2>3. StartedBy(call[c].pid, c)
    BY <2>2 DEF StartedBy, Child
  <2> QED
    BY <1>0, <2>1, <2>2, <2>3, NamesKept DEF StartedBy
<1>3. CASE Finds(c)
  BY <1>0, <1>3 DEF Finds, Returns
<1> QED
  BY <1>0, <1>1, <1>2, <1>3 DEF Courses

LEMMA NamesInvariant == Spec => []NamesInv
<1>1. Init => NamesInv
  <2>1. Init => Children /\ Files /\ Reports
    BY DEF Init, DaemonInit, Children, In, Files, Reports
  <2> QED
    BY <2>1, TypesInitially DEF NamesInv
<1>2. NamesInv /\ [Next]_vars => NamesInv'
  BY TypesStep, ChildrenStep, FilesStep, ReportsStep DEF NamesInv
<1> QED
  BY <1>1, <1>2, PTL DEF Spec

(* The daemon recorded for a runtime serves the database of that runtime:    *)
(* between the store look-up and the pid file the two can only differ where  *)
(* the environment of the server names no runtime.                          *)
THEOREM RecordsServe == Spec => RecordedDaemonServes
<1>1. NamesInv /\ [Next]_vars =>
        [\A x \in Place : pidFile'[x] # pidFile[x] =>
           LET d == os[pidFile'[x]]
           IN  d.db = x \/ (d.by \in Server /\ env[d.by] = Home)]_vars
  <2> SUFFICES ASSUME NamesInv, [Next]_vars, NEW x \in Place, pidFile'[x] # pidFile[x]
               PROVE  LET d == os[pidFile'[x]]
                      IN  d.db = x \/ (d.by \in Server /\ env[d.by] = Home)
    OBVIOUS
  <2>1. PICK c \in Caller : Records(c) /\ UNCHANGED lvars
    BY StepCourses DEF Courses, NamesInv
  <2>2. pidFile'[x] = call[c].pid /\ x = call[c].place
    BY <2>1 DEF Records, NamesInv, TypesInv, LauncherTypeOK, DaemonTypeOK
  <2>3. Child(c, os[call[c].pid]) /\ In(c, "grace")
    BY <2>1, ChildPid DEF Records, NamesInv
  <2>4. CASE c \in Tui
    BY <2>2, <2>3, <2>4 DEF NamesInv, TypesInv, CallsAre, Child, In
  <2>5. CASE c \in Server
    BY <2>2, <2>3, <2>5 DEF NamesInv, TypesInv, CallsAre, Child, In, Asking
  <2> QED
    BY <2>4, <2>5, LauncherAssumption
<1> QED
  BY <1>1, NamesInvariant, PTL DEF Spec, RecordedDaemonServes

(* What is reported as running is alive when the call returns, and is a      *)
(* daemon of the caller's directory unless its pid had been freed: where     *)
(* is_pid_running can tell a zombie.                                        *)
THEOREM ReportsAlive ==
  ASSUME ProcFs
  PROVE  Spec => ReportedDaemonAlive
<1> DEFINE Answers ==
      \A c \in Caller :
        /\ call[c] # Null /\ call'[c] = Null
        /\ status'[c] # Null /\ status'[c] # status[c] /\ status'[c].running
        => LET p == status'[c].pid
           IN  /\ os'[p] # Null /\ os'[p].live
               /\ p \in freed \/ (os'[p].kind = "loopd" /\ os'[p].place = call[c].place)
<1>1. NamesInv /\ [Next]_vars => [Answers]_dvars
  <2> SUFFICES ASSUME NamesInv, [Next]_vars, NEW c \in Caller,
                      call[c] # Null, call'[c] = Null,
                      status'[c] # Null, status'[c] # status[c], status'[c].running,
                      NEW p, p = status'[c].pid
               PROVE  /\ os'[p] # Null /\ os'[p].live
                      /\ p \in freed \/ (os'[p].kind = "loopd" /\ os'[p].place = call[c].place)
    OBVIOUS
  <2>0. status \in [Caller -> Status \cup {Null}]
    BY DEF NamesInv, TypesInv, LauncherTypeOK, DaemonTypeOK
  <2>1. CASE Finds(c)
    <3>1. call[c].place \in Place
      BY <2>1 DEF Finds, In, NamesInv, TypesInv, CallsAre, Asking
    <3>2. os' = os /\ p = pidFile[call[c].place] /\ Running(call[c].place)
      BY <2>0, <2>1 DEF Finds, Returns
    <3>3. Served(p, call[c].place) /\ os[p] # Null /\ os[p].live
      BY <3>1, <3>2 DEF Running, IsPidRunning, Exists, NamesInv, Files
    <3> QED
      BY <3>2, <3>3 DEF Served
  <2>2. CASE Records(c)
    <3>1. Child(c, os[call[c].pid])
      BY <2>2, ChildPid DEF Records, NamesInv
    <3>2. os' = os /\ p = call[c].pid /\ os[p].live
      BY <2>0, <2>2 DEF Records, Returns
    <3> QED
      BY <3>1, <3>2 DEF Child
  <2>3. ~ExitsAtOnce(c)
    BY <2>0 DEF ExitsAtOnce, Returns
  <2> QED
    BY <2>1, <2>2, <2>3, StepCourses DEF Courses, NamesInv
<1> QED
  BY <1>1, NamesInvariant, PTL DEF Spec, ReportedDaemonAlive

-----------------------------------------------------------------------------
(* The end of a launcher *)

(* A launcher stays where it is, and keeps its server, in the steps of       *)
(* everybody else; the clean-up it missed stays missed.                     *)
LEMMA OthersMove ==
  ASSUME TypesInv, [Next]_vars, NEW l \in Tui
  PROVE  /\ cut \subseteq cut'
         /\ ~Moves(l) => pc'[l] = pc[l] /\ (l \in served' => l \in served)
<1>0. DOMAIN pc = Tui
  BY DEF TypesInv, LauncherTypeOK
<1>1. ASSUME UNCHANGED <<pc, served, cut>>
      PROVE  /\ cut \subseteq cut'
             /\ ~Moves(l) => pc'[l] = pc[l] /\ (l \in served' => l \in served)
  BY <1>1
<1>2. ASSUME NEW m \in Tui, Moves(m)
      PROVE  cut \subseteq cut' /\ (m = l \/ (pc'[l] = pc[l] /\ (l \in served' => l \in served)))
  BY <1>0, <1>2 DEF Moves, TuiStep, Interrupted, Killed, Goto, WritesTmp, Replaces, Chmods,
     StartsServer, UsesServer, ServerAnswers, SkipsLoopd, OpensTui, Closes, Compares, Unlinks,
     StopsServer, HaltsLoopd
<1>3. ASSUME NEW s \in Server, ServerStep(s) PROVE UNCHANGED <<pc, served, cut>>
  BY <1>3 DEF ServerStep, SessionStarts, SessionEnds, OtherTool, LoopCreate, ChoosesStore,
     Resolves, lvars
<1>4. ASSUME NEW c \in Caller, CallStep(c) PROVE UNCHANGED <<pc, served, cut>>
  BY <1>4 DEF CallStep, lvars
<1>5. ASSUME NEW p \in Pid, Unforeseen(p) PROVE UNCHANGED <<pc, served, cut>>
  BY <1>5 DEF Unforeseen
<1>6. ASSUME UNCHANGED vars PROVE UNCHANGED <<pc, served, cut>>
  BY <1>6 DEF vars, lvars
<1>7. CASE \E m \in Tui : Moves(m)
  BY <1>2, <1>7
<1>8. CASE UNCHANGED <<pc, served, cut>>
  BY <1>1, <1>8
<1> QED
  BY <1>3, <1>4, <1>5, <1>6, <1>7, <1>8 DEF Next, Moves

(* Where the steps of a launcher lead.                                      *)
LEMMA OwnMoves ==
  ASSUME TypesInv, NEW l \in Tui, Moves(l)
  PROVE  /\ pc[l] \notin {"killed", "kept", "done"} /\ status'[l] = status[l]
         /\ pc'[l] = "done" => HaltsLoopd(l) \/ (Interrupted(l) /\ l \in cut')
         /\ pc'[l] = "halt" => StopsServer(l)
         /\ In(l, "grace") => pc'[l] \in {"killed", "kept"} \/ l \in cut'
<1>0. pc \in [Tui -> {"off", "replace", "chmod", "start", "wait", "ensure", "tui",
                      "clear", "unlink", "stop", "halt"} \cup Ended]
  BY DEF TypesInv, LauncherTypeOK
<1>1. pc[l] \notin {"killed", "kept", "done"}
  BY DEF Moves, TuiStep, Interrupted, Killed, WritesTmp, Replaces, Chmods,
     StartsServer, UsesServer, ServerAnswers, SkipsLoopd, OpensTui, Closes, Compares, Unlinks,
     StopsServer, HaltsLoopd, Ended
<1>2. status' = status
  BY DEF Moves, TuiStep, Interrupted, Killed, WritesTmp, Replaces, Chmods,
     StartsServer, UsesServer, ServerAnswers, SkipsLoopd, OpensTui, Closes, Compares, Unlinks,
     StopsServer, HaltsLoopd, dvars
<1>3. (pc'[l] = "done" => HaltsLoopd(l) \/ (Interrupted(l) /\ l \in cut'))
      /\ (pc'[l] = "halt" => StopsServer(l))
  <2>1. CASE Interrupted(l)
    BY <1>0, <2>1 DEF Interrupted, Goto
  <2>2. CASE StopsServer(l) \/ HaltsLoopd(l)
    BY <1>0, <2>2 DEF StopsServer, HaltsLoopd, Goto
  <2> QED
    BY <1>0, <2>1, <2>2 DEF Moves, TuiStep, Killed, Goto, WritesTmp, Replaces, Chmods,
       StartsServer, UsesServer, ServerAnswers, SkipsLoopd, OpensTui, Closes, Compares, Unlinks
<1>4. ASSUME In(l, "grace") PROVE pc'[l] \in {"killed", "kept"} \/ l \in cut'
  <2>1. pc[l] = "ensure" /\ call[l] # Null
    BY <1>4 DEF In, TypesInv, LauncherTypeOK
  <2>2. Interrupted(l) \/ Killed(l)
    BY <2>1 DEF Moves, TuiStep, WritesTmp, Replaces, Chmods,
       StartsServer, UsesServer, ServerAnswers, SkipsLoopd, OpensTui, Closes, Compares, Unlinks,
       StopsServer, HaltsLoopd
  <2> QED
    BY <1>0, <1>4, <2>1, <2>2 DEF Interrupted, Killed, Goto
<1> QED
  BY <1>1, <1>2, <1>3, <1>4

(* A process that lives outlives the end of anybody else.                   *)
LEMMA OrphanedLives ==
  ASSUME NEW T \in Tables, NEW c, NEW p \in Pid, T[p] # Null, T[p].live
  PROVE  Orphaned(T, c)[p] # Null /\ Orphaned(T, c)[p].live
<1>1. T[p] \in Process
  BY DEF Tables
<1>2. CASE T[p].parent # c
  BY <1>2 DEF Orphaned
<1>3. CASE T[p].parent = c
  <2>1. Orphaned(T, c)[p] = [T[p] EXCEPT !.parent = Null]
    BY <1>3 DEF Orphaned
  <2> QED
    BY <1>1, <2>1, AdoptedProcess, NullAssumption
<1> QED
  BY <1>2, <1>3

(* The clean-up ends the daemon it started, if that still is its process,    *)
(* and nothing else.                                                        *)
LEMMA HaltEnds ==
  ASSUME NamesInv, NEW l \in Tui, HaltsLoopd(l), NEW p \in Pid, Alive(p)
  PROVE  /\ (os'[p] = Null \/ ~os'[p].live) =>
              status[l] # Null /\ status[l].started /\ status[l].pid = p
         /\ status[l] # Null /\ status[l].started /\ status[l].pid = p =>
              os'[p] = Null \/ ~os'[p].live
<1> DEFINE P == {q \in Targets(l) : Alive(q)}
           D == Dead(P)
<1>1. os \in Tables /\ os[p] # Null /\ os[p].live
  BY DEF NamesInv, TypesInv, LauncherTypeOK, DaemonTypeOK, Tables, Alive, Exists
<1>2. D \in Tables /\ (p \in P => D[p] = Null \/ ~D[p].live)
  BY <1>1, DeadTable, DeadAges DEF Alive
<1>3. p \in P <=> status[l] # Null /\ status[l].started /\ status[l].pid = p
  BY DEF Targets, IsPidRunning, Alive
<1>4. os' = Orphaned(D, l)
  BY DEF HaltsLoopd, OsBecomes
<1>5. CASE p \notin P
  <2>1. D[p] = os[p]
    BY <1>5 DEF Dead
  <2> HIDE DEF D
  <2> QED
    BY <1>1, <1>2, <1>3, <1>4, <1>5, <2>1, OrphanedLives
<1>6. CASE p \in P
  <2> HIDE DEF D
  <2>1. Ages(D, Orphaned(D, l), {l}) /\ (D[p] = Null => Orphaned(D, l)[p] = Null)
    BY <1>2, OrphanedAges
  <2>2. os'[p] = Null \/ ~os'[p].live
    BY <1>2, <1>4, <1>6, <2>1 DEF Ages
  <2> QED
    BY <1>3, <1>6, <2>2
<1> QED
  BY <1>5, <1>6

(* What lives of a launcher's daemons is the one it has just spawned, or the *)
(* one it was told of; ExitStopsOwn follows, and says it of the end alone.  *)
Owned ==
  \A l \in Tui \ cut : pc[l] \notin {"killed", "kept"} =>
    \A p \in Pid : Alive(p) /\ os[p].by = l =>
      /\ pc[l] # "done"
      /\ \/ In(l, "grace") /\ call[l].pid = p
         \/ status[l] # Null /\ status[l].started /\ status[l].pid = p

Stopped == \A l \in Tui \ cut : pc[l] \in {"halt", "done"} => l \notin served

LEMMA OwnedStep ==
  ASSUME NamesInv, Owned, [Next]_vars
  PROVE  Owned'
<1> SUFFICES ASSUME NEW l \in Tui, l \notin cut', pc'[l] \notin {"killed", "kept"},
                    NEW p \in Pid, Alive(p)', os'[p].by = l
             PROVE  /\ pc'[l] # "done"
                    /\ \/ In(l, "grace")' /\ call'[l].pid = p
                       \/ status'[l] # Null /\ status'[l].started /\ status'[l].pid = p
  BY DEF Owned
<1>0. Fates /\ Courses /\ l \in Caller /\ l # Null
  BY StepFates, StepCourses, LauncherAssumption, DaemonAssumption DEF NamesInv
<1>1. l \notin cut /\ pc[l] \notin {"killed", "kept"}
  BY OthersMove, OwnMoves DEF NamesInv
<1>2. CASE Born(p)
  <2>1. PICK c \in Caller : /\ Spawns(c) /\ UNCHANGED lvars
                            /\ os'[p] = Loopd(c, call[c].place, call[c].db)
                            /\ In(c, "grace")' /\ call'[c].pid = p
    BY <1>2 DEF Born
  <2>2. c = l /\ call[c] # Null
    BY <2>1 DEF Loopd, Spawns, In
  <2>3. pc'[l] = "ensure"
    BY <2>1, <2>2 DEF NamesInv, TypesInv, LauncherTypeOK, lvars
  <2> QED
    BY <2>1, <2>2, <2>3
<1>3. CASE Kept(p)
  <2>1. /\ Alive(p) /\ os[p].by = l /\ pc[l] # "done"
        /\ \/ In(l, "grace") /\ call[l].pid = p
           \/ status[l] # Null /\ status[l].started /\ status[l].pid = p
    BY <1>1, <1>3 DEF Kept, Alive, Exists, Owned
  <2>2. CASE In(l, "grace") /\ call[l].pid = p
    <3>1. ~Moves(l)
      BY <2>2, OwnMoves DEF NamesInv
    <3>2. pc'[l] = pc[l]
      BY <3>1, OthersMove DEF NamesInv
    <3>3. CASE call'[l] = call[l]
      BY <2>1, <2>2, <3>2, <3>3 DEF In
    <3>4. CASE Turns(l)
      <4>1. Records(l)
        BY <2>1, <2>2, <3>4 DEF Turns, Misses, Spawns, ExitsAtOnce, In, Alive
      <4>2. status'[l] = [running |-> TRUE, started |-> TRUE, pid |-> p]
        BY <1>0, <2>2, <4>1 DEF Records, Returns, NamesInv, TypesInv, LauncherTypeOK,
           DaemonTypeOK
      <4>3. [running |-> TRUE, started |-> TRUE, pid |-> p] \in Status
        BY DEF Status
      <4>4. status'[l] # Null
        BY <4>2, <4>3, NullAssumption
      <4> QED
        BY <2>1, <3>2, <4>2, <4>4
    <3>5. call'[l] = call[l] \/ Turns(l)
      BY <1>0, <2>2, <3>1, LauncherAssumption DEF Courses, Prepares, Quits
    <3> QED
      BY <3>3, <3>4, <3>5
  <2>3. CASE status[l] # Null /\ status[l].started /\ status[l].pid = p
    <3>1. call[l] = Null
      BY <2>3 DEF NamesInv, TypesInv, CallsAre
    <3>2. status'[l] = status[l]
      BY <1>0, <3>1, LauncherAssumption DEF Courses, Finds, ExitsAtOnce, Records, In
    <3>3. ~HaltsLoopd(l)
      BY <2>1, <2>3, HaltEnds DEF Alive, Exists
    <3>4. pc'[l] # "done"
      BY <2>1, <3>3, OwnMoves, OthersMove DEF NamesInv
    <3> QED
      BY <2>3, <3>2, <3>4
  <2> QED
    BY <2>1, <2>2, <2>3
<1>4. Kept(p) \/ Born(p)
  BY <1>0 DEF Fates, Gone, Absent, Stranger, Alive, Exists
<1> QED
  BY <1>2, <1>3, <1>4

LEMMA StoppedStep ==
  ASSUME TypesInv, Stopped, [Next]_vars
  PROVE  Stopped'
<1> SUFFICES ASSUME NEW l \in Tui, l \notin cut', pc'[l] \in {"halt", "done"}
             PROVE  l \notin served'
  BY DEF Stopped
<1>1. l \notin cut
  BY OthersMove
<1>2. CASE ~Moves(l)
  BY <1>1, <1>2, OthersMove DEF Stopped
<1>3. CASE StopsServer(l)
  BY <1>3 DEF StopsServer
<1>4. CASE HaltsLoopd(l)
  BY <1>1, <1>4 DEF HaltsLoopd, Stopped
<1> QED
  BY <1>2, <1>3, <1>4, OwnMoves

EndInv == NamesInv /\ Owned /\ Stopped

LEMMA EndInvariant == Spec => []EndInv
<1>1. Init => Owned /\ Stopped
  BY DEF Init, DaemonInit, Owned, Stopped, Alive, Exists
<1>2. NamesInv /\ Owned /\ Stopped /\ [Next]_vars => Owned' /\ Stopped'
  BY OwnedStep, StoppedStep DEF NamesInv
<1> QED
  BY <1>1, <1>2, NamesInvariant, PTL DEF Spec, EndInv

(* A launcher that came to its end leaves nothing running that it started.   *)
THEOREM ExitLeavesNothing == Spec => []ExitStopsOwn
<1>1. EndInv => ExitStopsOwn
  BY DEF EndInv, Owned, Stopped, ExitStopsOwn
<1> QED
  BY <1>1, EndInvariant, PTL

(* The clean-up of a launcher ends no process but its own daemon, or one     *)
(* that got the pid of that daemon after it was freed.                      *)
THEOREM ExitHarmless == Spec => ExitHarmsNoOther
<1> DEFINE Harmless ==
      \A l \in Tui : pc[l] = "halt" /\ pc'[l] = "done" =>
        \A p \in Pid : Alive(p) /\ (os'[p] = Null \/ ~os'[p].live) => os[p].by = l \/ p \in freed
<1>1. NamesInv /\ [Next]_vars => [Harmless]_vars
  <2> SUFFICES ASSUME NamesInv, [Next]_vars, NEW l \in Tui, pc[l] = "halt", pc'[l] = "done",
                      NEW p \in Pid, Alive(p), os'[p] = Null \/ ~os'[p].live
               PROVE  os[p].by = l \/ p \in freed
    OBVIOUS
  <2>1. HaltsLoopd(l) \/ Interrupted(l)
    BY OthersMove, OwnMoves DEF NamesInv
  <2>2. CASE HaltsLoopd(l)
    <3>1. status[l] # Null /\ status[l].started /\ status[l].pid = p
      BY <2>2, HaltEnds
    <3> QED
      BY <3>1, LauncherAssumption DEF NamesInv, Reports, StartedBy
  <2>3. CASE Interrupted(l)
    <3>1. os' = Orphaned(os, l)
      BY <2>3 DEF Interrupted, OsBecomes
    <3>2. os \in Tables /\ os[p] # Null /\ os[p].live
      BY DEF NamesInv, TypesInv, LauncherTypeOK, DaemonTypeOK, Tables, Alive, Exists
    <3> QED
      BY <3>1, <3>2, OrphanedLives
  <2> QED
    BY <2>1, <2>2, <2>3
<1> QED
  BY <1>1, NamesInvariant, PTL DEF Spec, ExitHarmsNoOther

-----------------------------------------------------------------------------
(* One daemon per directory *)

(* OneDaemon is not inductive: it says nothing of the calls that are about   *)
(* to spawn.  In a directory where no two calls overlapped and none was cut  *)
(* off, one call at most is past its look; while it is, the only daemon      *)
(* there is its child, and else the one that the pid file names.            *)
Sole ==
  \A x \in Place \ excused :
    /\ \A c, d \in Starting(x) : c = d
    /\ \A p \in Daemons(x) :
         IF Starting(x) = {} THEN pidFile[x] = p
         ELSE \E c \in Starting(x) : call[c].pid = p

(* A call that has not spawned yet has no daemon.                           *)
LEMMA SpawnPid ==
  ASSUME TypesInv, NEW c \in Caller, In(c, "spawn")
  PROVE  call[c].pid = Null
BY DEF TypesInv, LauncherTypeOK, DaemonTypeOK, In

LEMMA TurnsAlone ==
  ASSUME TypesInv, NEW c \in Caller, Turns(c)
  PROVE  \A d \in Caller \ {c} : call'[d] = call[d]
BY DEF Turns, Misses, Spawns, ExitsAtOnce, Records, Returns, TypesInv, LauncherTypeOK,
   DaemonTypeOK

(* A call gets past its look only where the directory has no running daemon  *)
(* on record; and there it is alone, or the directory is excused.           *)
LEMMA MissesAt ==
  ASSUME TypesInv, NEW c \in Caller, Misses(c)
  PROVE  /\ In(c, "look") /\ ~Running(call[c].place) /\ UNCHANGED <<os, pidFile>>
         /\ In(c, "spawn")' /\ call'[c].place = call[c].place
         /\ call[c].place \notin excused' => Starting(call[c].place) = {}
<1>1. /\ In(c, "look") /\ call[c] # Null /\ call' = [call EXCEPT ![c].stage = "spawn"]
      /\ ~Running(call[c].place) /\ UNCHANGED <<os, pidFile>>
      /\ call[c].place \notin excused' => Starting(call[c].place) = {}
  BY DEF Misses, In
<1>2. /\ call'[c] \in Call /\ call'[c].stage = "spawn" /\ call'[c].place = call[c].place
  BY <1>1, CallAfter DEF TypesInv, LauncherTypeOK
<1> QED
  BY <1>1, <1>2, NullAssumption DEF In

(* Past its look a call stays for the directory it looked at.               *)
LEMMA StartingStep ==
  ASSUME NamesInv, [Next]_vars, NEW x \in Place \ excused', NEW d \in Starting(x)'
  PROVE  d \in Starting(x) \/ (Misses(d) /\ UNCHANGED lvars /\ call[d].place = x /\ Starting(x) = {})
<1>0. d \in Caller /\ (In(d, "spawn")' \/ In(d, "grace")') /\ call'[d].place = x
  BY DEF Starting
<1>1. CASE call'[d] = call[d]
  BY <1>0, <1>1 DEF Starting, In
<1>2. CASE Misses(d) /\ UNCHANGED lvars
  BY <1>0, <1>2, MissesAt DEF NamesInv
<1>3. CASE Spawns(d) /\ UNCHANGED lvars
  BY <1>0, <1>3, SpawnFates DEF NamesInv, Starting
<1>4. call'[d] # Null /\ call'[d].stage \in {"spawn", "grace"}
  BY <1>0 DEF In
<1>5. ~ExitsAtOnce(d) /\ ~Records(d)
  BY <1>0, <1>4 DEF ExitsAtOnce, Records, Returns, NamesInv, TypesInv, LauncherTypeOK, DaemonTypeOK
<1>6. ~Prepares(d) /\ ~Quits(d)
  BY <1>0, <1>4, CutTypes DEF Prepares, Quits, NamesInv
<1> QED
  BY <1>0, <1>1, <1>2, <1>3, <1>5, <1>6, StepCourses DEF Courses, Turns, NamesInv

(* A directory only gets a daemon from a call that spawns there.            *)
LEMMA DaemonsStep ==
  ASSUME NamesInv, [Next]_vars, NEW x \in Place, NEW p \in Daemons(x)'
  PROVE  p \in Daemons(x) \/ \E c \in Starting(x) : /\ Spawns(c) /\ UNCHANGED lvars
                                                    /\ call'[c].pid = p
<1>1. /\ p \in Pid /\ os'[p] # Null /\ os'[p].live
      /\ os'[p].kind = "loopd" /\ os'[p].place = x
  BY DEF Daemons, Alive, Exists
<1>2. CASE Kept(p)
  BY <1>1, <1>2 DEF Kept, Daemons, Alive, Exists
<1>3. CASE Born(p)
  <2>1. PICK c \in Caller : /\ Spawns(c) /\ UNCHANGED lvars
                            /\ os'[p] = Loopd(c, call[c].place, call[c].db)
                            /\ call'[c].pid = p
    BY <1>3 DEF Born
  <2>2. c \in Starting(x)
    BY <1>1, <2>1 DEF Loopd, Starting, Spawns
  <2> QED
    BY <2>1, <2>2
<1> QED
  BY <1>1, <1>2, <1>3, StepFates DEF Fates, Gone, Absent, Stranger, NamesInv

LEMMA SoleStep ==
  ASSUME NamesInv, Sole, [Next]_vars
  PROVE  Sole'
<1> SUFFICES ASSUME NEW x \in Place \ excused'
             PROVE  /\ \A c, d \in Starting(x)' : c = d
                    /\ \A p \in Daemons(x)' :
                         IF Starting(x)' = {} THEN pidFile'[x] = p
                         ELSE \E c \in Starting(x)' : call'[c].pid = p
  BY DEF Sole
<1>0. TypesInv /\ Courses /\ x \in Place \ excused
  BY StepCourses DEF NamesInv, Courses
<1>1. /\ \A c, d \in Starting(x) : c = d
      /\ \A p \in Daemons(x) :
           IF Starting(x) = {} THEN pidFile[x] = p
           ELSE \E c \in Starting(x) : call[c].pid = p
  BY <1>0 DEF Sole
<1>2. \A c \in Starting(x) : c \in Caller /\ (In(c, "spawn") \/ In(c, "grace")) /\ call[c].place = x
  BY DEF Starting
<1>3. \A p \in Daemons(x) : p \in Pid /\ p # Null /\ os[p] # Null /\ os[p].live
  BY DaemonAssumption DEF Daemons, Alive, Exists
<1>4. \A c \in Starting(x) : In(c, "spawn") => Daemons(x) = {}
  BY <1>0, <1>1, <1>2, <1>3, SpawnPid
<1>5. ASSUME NEW c \in Caller, Misses(c), UNCHANGED lvars, call[c].place = x, Starting(x) = {}
      PROVE  Starting(x)' = {c} /\ Daemons(x)' = {}
  <2>1. /\ ~Running(x) /\ UNCHANGED <<os, pidFile>> /\ c \in Starting(x)'
    BY <1>0, <1>5, MissesAt DEF Starting
  <2>2. Daemons(x) = {}
    BY <1>1, <1>3, <1>5, <2>1 DEF Running, IsPidRunning, Exists
  <2>3. Daemons(x)' = {}
    BY <2>1, <2>2 DEF Daemons, Alive, Exists
  <2>4. \A d \in Starting(x)' : d = c
    <3> SUFFICES ASSUME NEW d \in Starting(x)', d # c PROVE FALSE
      OBVIOUS
    <3>1. d \in Caller /\ Misses(d)
      BY <1>5, StartingStep DEF Starting
    <3>2. call'[d] = call[d]
      BY <1>0, <1>5, <3>1, TurnsAlone DEF Turns
    <3> QED
      BY <1>0, <3>1, <3>2, MissesAt DEF In
  <2> QED
    BY <2>1, <2>3, <2>4
<1>6. ASSUME NEW c \in Starting(x), Spawns(c), UNCHANGED lvars
      PROVE  Starting(x)' = {c} /\ \A p \in Daemons(x)' : call'[c].pid = p
  <2>1. In(c, "spawn") /\ In(c, "grace")' /\ call'[c].place = x /\ Daemons(x) = {}
    BY <1>0, <1>2, <1>4, <1>6, SpawnFates DEF NamesInv
  <2>2. c \in Starting(x)' /\ \A d \in Starting(x)' : d = c
    BY <1>1, <1>2, <1>6, <2>1, StartingStep DEF Starting
  <2>3. \A p \in Daemons(x)' : call'[c].pid = p
    BY <1>0, <1>1, <1>6, <2>1, DaemonsStep
  <2> QED
    BY <2>2, <2>3
<1>7. ASSUME NEW c \in Starting(x), call'[c] = Null
      PROVE  /\ Starting(x)' = {}
             /\ \A p \in Daemons(x)' : pidFile'[x] = p
  <2>1. Starting(x)' = {}
    BY <1>0, <1>1, <1>7, StartingStep DEF Starting, In
  <2>2. Daemons(x)' \subseteq Daemons(x)
    BY <1>0, <1>1, <1>2, <1>7, SpawnFates, DaemonsStep DEF NamesInv, In
  <2>3. CASE In(c, "spawn")
    BY <1>4, <2>1, <2>2, <2>3
  <2>4. CASE In(c, "grace") /\ Records(c)
    <3>1. pidFile'[x] = call[c].pid
      BY <1>0, <1>2, <2>4 DEF Records, TypesInv, LauncherTypeOK, DaemonTypeOK
    <3> QED
      BY <1>1, <2>1, <2>2, <3>1
  <2>5. CASE In(c, "grace") /\ ExitsAtOnce(c)
    <3>1. ~os[call[c].pid].live
      BY <2>5 DEF ExitsAtOnce
    <3> QED
      BY <1>1, <1>3, <2>1, <2>2, <3>1
  <2>6. CASE In(c, "grace") /\ Quits(c)
    BY <1>2, <2>6 DEF Quits, CutOff
  <2>7. call'[c] # call[c] /\ ~Prepares(c) /\ ~Misses(c)
    BY <1>2, <1>7 DEF In, Prepares, Misses
  <2>8. ~(Spawns(c) /\ UNCHANGED lvars)
    BY <1>2, <1>7, SpawnFates DEF NamesInv, In
  <2> QED
    BY <1>0, <1>2, <2>3, <2>4, <2>5, <2>6, <2>7, <2>8 DEF Courses, Turns
<1>8. ASSUME \A c \in Starting(x) : call'[c] = call[c],
             ~\E c \in Caller : Misses(c) /\ UNCHANGED lvars /\ call[c].place = x /\ Starting(x) = {}
      PROVE  /\ Starting(x)' = Starting(x) /\ Daemons(x)' \subseteq Daemons(x)
             /\ pidFile'[x] = pidFile[x]
  <2>1. Starting(x)' = Starting(x)
    <3>1. Starting(x)' \subseteq Starting(x)
      BY <1>8, StartingStep DEF Starting
    <3>2. Starting(x) \subseteq Starting(x)'
      BY <1>8 DEF Starting, In
    <3> QED
      BY <3>1, <3>2
  <2>2. Daemons(x)' \subseteq Daemons(x)
    <3> SUFFICES ASSUME NEW p \in Daemons(x)', p \notin Daemons(x) PROVE FALSE
      OBVIOUS
    <3>1. PICK c \in Starting(x) : Spawns(c) /\ UNCHANGED lvars
      BY <1>0, DaemonsStep
    <3> QED
      BY <1>2, <1>8, <3>1, SpawnFates DEF NamesInv, In
  <2>3. pidFile'[x] = pidFile[x]
    <3> SUFFICES ASSUME pidFile'[x] # pidFile[x] PROVE FALSE
      OBVIOUS
    <3>1. PICK c \in Caller : Records(c)
      BY <1>0 DEF Courses
    <3>2. call[c].place = x /\ In(c, "grace") /\ call'[c] = Null
      BY <1>0, <3>1 DEF Records, Returns, TypesInv, LauncherTypeOK, DaemonTypeOK
    <3> QED
      BY <1>8, <3>2 DEF Starting, In
  <2> QED
    BY <2>1, <2>2, <2>3
<1>9. \A c \in Starting(x) : call'[c] = call[c] \/ call'[c] = Null \/ (Spawns(c) /\ UNCHANGED lvars)
  <2> SUFFICES ASSUME NEW c \in Starting(x)
               PROVE  call'[c] = call[c] \/ call'[c] = Null \/ (Spawns(c) /\ UNCHANGED lvars)
    OBVIOUS
  <2>1. c \in Caller /\ (In(c, "spawn") \/ In(c, "grace"))
    BY <1>2
  <2>2. c \in DOMAIN call
    BY <1>0, <2>1 DEF TypesInv, LauncherTypeOK, DaemonTypeOK
  <2>3. call'[c] = call[c] \/ Turns(c) \/ Prepares(c) \/ Quits(c)
    BY <1>0, <2>1 DEF Courses
  <2>4. ~Prepares(c) /\ ~Misses(c)
    BY <2>1 DEF Prepares, Misses, In
  <2>5. Quits(c) => call'[c] = Null
    BY <1>0, <2>1, CutTypes DEF Quits
  <2>6. ExitsAtOnce(c) \/ Records(c) => call'[c] = Null
    BY <2>2 DEF ExitsAtOnce, Records, Returns
  <2> QED
    BY <2>3, <2>4, <2>5, <2>6 DEF Turns
<1> QED
  BY <1>1, <1>2, <1>5, <1>6, <1>7, <1>8, <1>9

LEMMA SoleInvariant == Spec => [](NamesInv /\ Sole)
<1>1. Init => Sole
  BY DEF Init, DaemonInit, Sole, Starting, In, Daemons, Alive, Exists
<1>2. NamesInv /\ Sole /\ [Next]_vars => Sole'
  BY SoleStep
<1> QED
  BY <1>1, <1>2, NamesInvariant, PTL DEF Spec

(* A directory has at most one daemon, whatever dies, ends or has its pid    *)
(* reused, unless two callers that both found none overlapped there or one   *)
(* was cut off between its spawn and the pid file.                          *)
THEOREM OneDaemonEach == Spec => []OneDaemon
<1>1. Sole => OneDaemon
  <2> SUFFICES ASSUME Sole, NEW x \in Place \ excused PROVE Cardinality(Daemons(x)) <= 1
    BY DEF OneDaemon
  <2>1. \A p, q \in Daemons(x) : p = q
    BY DEF Sole
  <2>2. CASE Daemons(x) = {}
    BY <2>2, FS_EmptySet
  <2>3. CASE Daemons(x) # {}
    <3>1. PICK p \in Daemons(x) : TRUE
      BY <2>3
    <3>2. Daemons(x) = {p}
      BY <2>1, <3>1
    <3>3. Cardinality({p}) = 1
      BY FS_Singleton, Zenon
    <3> QED
      BY <3>2, <3>3
  <2> QED
    BY <2>2, <2>3
<1> QED
  BY <1>1, SoleInvariant, PTL

===========================================================================
