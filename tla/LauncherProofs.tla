-------------------------- MODULE LauncherProofs --------------------------
(***************************************************************************)
(* Launcher: the types of its state, the file active-runtime.json, and     *)
(* which runtime a call of ensure_daemon_running is about.                 *)
(***************************************************************************)
EXTENDS Launcher, TLAPS

Tables == [Pid -> Process \cup {Null}]

(* A process that dies, or is adopted, is a process and else the same.      *)
LEMMA DeadProcess ==
  ASSUME NEW q \in Process
  PROVE  LET r == [q EXCEPT !.live = FALSE]
         IN  /\ r \in Process /\ r.live = FALSE
             /\ r.kind = q.kind /\ r.parent = q.parent /\ r.by = q.by
             /\ r.place = q.place /\ r.db = q.db
BY DEF Process

LEMMA AdoptedProcess ==
  ASSUME NEW q \in Process
  PROVE  LET r == [q EXCEPT !.parent = Null]
         IN  /\ r \in Process /\ r.parent = Null
             /\ r.kind = q.kind /\ r.live = q.live /\ r.by = q.by
             /\ r.place = q.place /\ r.db = q.db
BY DEF Process

(* The operations on the process table yield process tables.                *)
LEMMA DeadTable ==
  ASSUME os \in Tables, NEW P, \A p \in P : Exists(p)
  PROVE  Dead(P) \in Tables
<1>1. \A p \in P \cap Pid : os[p] \in Process
  BY DEF Tables, Exists
<1>2. \A p \in P \cap Pid : [os[p] EXCEPT !.live = FALSE] \in Process
  BY <1>1, DeadProcess
<1> QED
  BY <1>2, Zenon DEF Tables, Dead

LEMMA ReapedTable ==
  ASSUME os \in Tables, NEW c
  PROVE  Reaped(c) \in Tables
BY DEF Tables, Reaped

LEMMA OrphanedTable ==
  ASSUME NEW T \in Tables, NEW c
  PROVE  Orphaned(T, c) \in Tables
<1>1. \A p \in Pid : T[p] # Null => [T[p] EXCEPT !.parent = Null] \in Process
  BY AdoptedProcess DEF Tables
<1> QED
  BY <1>1, Zenon DEF Tables, Orphaned

LEMMA LoopdProcess ==
  ASSUME NEW c \in Caller, NEW x \in Place, NEW y \in Place
  PROVE  Loopd(c, x, y) \in Process
BY DEF Loopd, Process

(* A process table replaced by one keeps the types of os and freed. *)
LEMMA OsTypes ==
  ASSUME freed \subseteq Pid, NEW T \in Tables, OsBecomes(T)
  PROVE  os' \in Tables /\ freed' \subseteq Pid
BY DEF OsBecomes

(* What the parts of a call of ensure_daemon_running refer to: the           *)
(* database is known from the store on, the directory from the look on; a launcher makes   *)
(* one call, for its own directory, and a server whose environment names a   *)
(* runtime calls for that one.                                               *)
Asking == {"look", "spawn", "grace"}

CallsAre ==
  /\ \A c \in Caller : call[c] # Null =>
       /\ call[c].stage # "store" => call[c].db \in Place
       /\ call[c].stage \in Asking => call[c].place \in Place
  /\ \A l \in Tui : pc[l] # "off" => dir[l] # Null
  /\ \A l \in Tui : call[l] # Null =>
       status[l] = Null /\ call[l].stage \in Asking /\ call[l].db = call[l].place
  /\ \A l \in Tui : pc[l] \in {"off", "replace", "chmod", "start", "wait"} => status[l] = Null
  /\ \A s \in Server : call[s] # Null /\ env[s] # Home =>
       /\ call[s].stage # "store" => call[s].db = env[s]
       /\ call[s].stage \in Asking => call[s].place = env[s]

TypesInv == LauncherTypeOK /\ CallsAre

-----------------------------------------------------------------------------
(* Types *)

LEMMA TypesInitially == Init => TypesInv
BY LauncherAssumption, DaemonAssumption
   DEF Init, DaemonInit, TypesInv, LauncherTypeOK, DaemonTypeOK, CallsAre, Ended

LEMMA SpendTypes ==
  ASSUME LauncherTypeOK, NEW b \in DOMAIN Budget, Spend(b)
  PROVE  spent' \in [DOMAIN Budget -> Nat]
BY LauncherAssumption DEF Spend, LauncherTypeOK

(* Steps of launchers that leave processes and calls alone.                 *)
LEMMA TuiTypes ==
  ASSUME TypesInv, NEW l \in Tui,
         \/ WritesTmp(l) \/ Replaces(l) \/ Chmods(l) \/ StartsServer(l) \/ UsesServer(l)
         \/ SkipsLoopd(l) \/ Compares(l) \/ Unlinks(l) \/ StopsServer(l)
  PROVE  TypesInv'
<1> USE LauncherAssumption, DaemonAssumption
    DEF TypesInv, LauncherTypeOK, DaemonTypeOK, CallsAre, Ended, Goto, dvars, Runtime
<1>1. CASE WritesTmp(l)
  BY <1>1 DEF WritesTmp
<1>2. CASE Replaces(l)
  BY <1>2 DEF Replaces
<1>3. CASE Chmods(l)
  BY <1>3 DEF Chmods
<1>4. CASE StartsServer(l) \/ UsesServer(l)
  BY <1>4 DEF StartsServer, UsesServer
<1>5. CASE SkipsLoopd(l)
  BY <1>5 DEF SkipsLoopd
<1>6. CASE Compares(l) \/ Unlinks(l)
  BY <1>6 DEF Compares, Unlinks
<1>7. CASE StopsServer(l)
  BY <1>7 DEF StopsServer
<1> QED
  BY <1>1, <1>2, <1>3, <1>4, <1>5, <1>6, <1>7

(* The call of c after each step of ensure_daemon_running, and ChoosesStore. *)
LEMMA CallAfter ==
  ASSUME DaemonTypeOK, NEW c \in Caller, call[c] # Null
  PROVE  /\ \A x \in Place : call' = [call EXCEPT ![c].stage = "resolve", ![c].db = x] =>
              /\ call'[c] \in Call /\ call'[c].stage = "resolve" /\ call'[c].db = x
              /\ call'[c].place = call[c].place /\ call'[c].pid = call[c].pid
         /\ call' = [call EXCEPT ![c].stage = "spawn"] =>
              /\ call'[c] \in Call /\ call'[c].stage = "spawn" /\ call'[c].db = call[c].db
              /\ call'[c].place = call[c].place /\ call'[c].pid = call[c].pid
         /\ \A p \in Pid : call' = [call EXCEPT ![c].stage = "grace", ![c].pid = p] =>
              /\ call'[c] \in Call /\ call'[c].stage = "grace" /\ call'[c].db = call[c].db
              /\ call'[c].place = call[c].place /\ call'[c].pid = p
<1>1. call \in [Caller -> Call \cup {Null}] /\ call[c] \in Call
  BY DEF DaemonTypeOK
<1>2. ASSUME NEW x \in Place, call' = [call EXCEPT ![c].stage = "resolve", ![c].db = x]
      PROVE  /\ call'[c] \in Call /\ call'[c].stage = "resolve" /\ call'[c].db = x
             /\ call'[c].place = call[c].place /\ call'[c].pid = call[c].pid
  <2>1. call'[c] = [stage |-> "resolve", place |-> call[c].place, db |-> x,
                    pid |-> call[c].pid]
    BY <1>1, <1>2 DEF Call
  <2> QED
    BY <1>1, <2>1 DEF Call
<1>3. ASSUME call' = [call EXCEPT ![c].stage = "spawn"]
      PROVE  /\ call'[c] \in Call /\ call'[c].stage = "spawn" /\ call'[c].db = call[c].db
             /\ call'[c].place = call[c].place /\ call'[c].pid = call[c].pid
  <2>1. call'[c] = [stage |-> "spawn", place |-> call[c].place, db |-> call[c].db,
                    pid |-> call[c].pid]
    BY <1>1, <1>3 DEF Call
  <2> QED
    BY <1>1, <2>1 DEF Call
<1>4. ASSUME NEW p \in Pid, call' = [call EXCEPT ![c].stage = "grace", ![c].pid = p]
      PROVE  /\ call'[c] \in Call /\ call'[c].stage = "grace" /\ call'[c].db = call[c].db
             /\ call'[c].place = call[c].place /\ call'[c].pid = p
  <2>1. call'[c] = [stage |-> "grace", place |-> call[c].place, db |-> call[c].db,
                    pid |-> p]
    BY <1>1, <1>4 DEF Call
  <2> QED
    BY <1>1, <2>1 DEF Call
<1> QED
  BY <1>2, <1>3, <1>4

(* Steps that start a call, or bring it to the look.                        *)
LEMMA AskTypes ==
  ASSUME TypesInv
  PROVE  /\ \A l \in Tui : ServerAnswers(l) => TypesInv'
         /\ \A s \in Server : (\/ SessionStarts(s) \/ OtherTool(s) \/ LoopCreate(s)
                               \/ ChoosesStore(s) \/ Resolves(s)) => TypesInv'
<1> USE LauncherAssumption, DaemonAssumption
    DEF TypesInv, LauncherTypeOK, DaemonTypeOK, CallsAre, Ended, Goto, dvars, Runtime,
        Call, In, Asks, Asking, Applied, EnvOrFile, lvars
<1>1. ASSUME NEW l \in Tui, ServerAnswers(l) PROVE TypesInv'
  BY <1>1 DEF ServerAnswers
<1>2. ASSUME NEW s \in Server, SessionStarts(s) PROVE TypesInv'
  BY <1>2 DEF SessionStarts
<1>3. ASSUME NEW s \in Server, OtherTool(s) PROVE TypesInv'
  BY <1>3 DEF OtherTool
<1>4. ASSUME NEW s \in Server, LoopCreate(s) PROVE TypesInv'
  BY <1>4, SpendTypes DEF LoopCreate
<1>5. ASSUME NEW s \in Server, ChoosesStore(s) PROVE TypesInv'
  <2>1. call[s] \in Call /\ call[s].stage = "store" /\ EnvOrFile(s) \in Place
    BY <1>5 DEF ChoosesStore
  <2>2. /\ call'[s] \in Call /\ call'[s].stage = "resolve" /\ call'[s].db = EnvOrFile(s)
        /\ call'[s].place = call[s].place /\ call'[s].pid = call[s].pid
    <3> HIDE DEF EnvOrFile, DaemonTypeOK, Call
    <3> QED
      BY <1>5, <2>1, CallAfter DEF ChoosesStore
  <2>3. \A c \in Caller \ {s} : call'[c] = call[c]
    BY <1>5 DEF ChoosesStore
  <2>4. call' \in [Caller -> Call \cup {Null}]
    BY <1>5, <2>2 DEF ChoosesStore
  <2>5. UNCHANGED <<os, pidFile, status, freed, excused, lvars>> /\ s \notin Tui /\ call[s] # Null
    BY <1>5 DEF ChoosesStore
  <2>6. LauncherTypeOK'
    <3> HIDE DEF Call, Runtime
    <3>1. \A c \in Caller : call'[c] # Null =>
            (call'[c].stage = "grace" <=> call'[c].pid # Null)
      BY <2>1, <2>2, <2>3, <2>5
    <3>2. /\ \A l \in Tui : call'[l] # Null => pc'[l] = "ensure"
          /\ \A t \in Server : call'[t] # Null => env'[t] # Null
      BY <2>3, <2>5
    <3> QED
      BY <2>4, <2>5, <3>1, <3>2
  <2>7. \A c \in Caller : call'[c] # Null =>
          /\ call'[c].stage # "store" => call'[c].db \in Place
          /\ call'[c].stage \in Asking => call'[c].place \in Place
    BY <2>1, <2>2, <2>3
  <2>8. \A t \in Server : call'[t] # Null /\ env[t] # Home =>
          /\ call'[t].stage # "store" => call'[t].db = env[t]
          /\ call'[t].stage \in Asking => call'[t].place = env[t]
    BY <2>2, <2>3
  <2>9. \A l \in Tui : call'[l] = call[l]
    BY <2>3, <2>5
  <2> QED
    BY <2>5, <2>6, <2>7, <2>8, <2>9
<1>6. ASSUME NEW s \in Server, Resolves(s) PROVE TypesInv'
  <2>1. call[s] \in Call /\ call[s].stage = "resolve" /\ EnvOrFile(s) \in Place
    BY <1>6 DEF Resolves
  <2>2. CASE call' = [call EXCEPT ![s] = Asks(EnvOrFile(s), @.db)]
    BY <1>6, <2>1, <2>2 DEF Resolves
  <2>3. CASE call' = [call EXCEPT ![s] = Null]
    BY <1>6, <2>3 DEF Resolves
  <2> QED
    BY <1>6, <2>2, <2>3 DEF Resolves
<1> QED
  BY <1>1, <1>2, <1>3, <1>4, <1>5, <1>6

(* Steps of ensure_daemon_running.                                          *)
LEMMA EnsuresTypes ==
  ASSUME TypesInv, NEW c \in Caller, CallStep(c)
  PROVE  TypesInv'
<1> USE LauncherAssumption, DaemonAssumption
    DEF TypesInv, LauncherTypeOK, DaemonTypeOK, CallsAre, Ended, dvars, Runtime,
        In, Asking, Returns, lvars, Status
<1>0. UNCHANGED lvars /\ Ensures(c)
  BY DEF CallStep
<1>1. CASE Finds(c)
  BY <1>0, <1>1 DEF Finds, Running
<1>2. CASE Misses(c)
  <2>1. call[c] # Null /\ call[c].stage = "look" /\ call[c].place \in Place
    BY <1>2 DEF Misses
  <2>2. /\ call'[c] \in Call /\ call'[c].stage = "spawn" /\ call'[c].db = call[c].db
        /\ call'[c].place = call[c].place /\ call'[c].pid = call[c].pid
    <3> HIDE DEF DaemonTypeOK
    <3> QED
      BY <1>2, <2>1, CallAfter DEF Misses
  <2>3. /\ call' \in [Caller -> Call \cup {Null}]
        /\ \A d \in Caller \ {c} : call'[d] = call[d]
    BY <1>2, <2>2 DEF Misses
  <2> QED
    BY <1>0, <1>2, <2>1, <2>2, <2>3 DEF Misses
<1>3. CASE Spawns(c)
  <2>1. call[c] # Null /\ call[c].stage = "spawn"
    BY <1>3 DEF Spawns
  <2>2. call[c].place \in Place /\ call[c].db \in Place
    BY <2>1
  <2>3. PICK p \in Pid :
          /\ OsBecomes([Reaped(c) EXCEPT ![p] = Loopd(c, call[c].place, call[c].db)])
          /\ call' = [call EXCEPT ![c].stage = "grace", ![c].pid = p]
    BY <1>3 DEF Spawns
  <2>4. /\ call'[c] \in Call /\ call'[c].stage = "grace" /\ call'[c].db = call[c].db
        /\ call'[c].place = call[c].place /\ call'[c].pid = p
    <3> HIDE DEF DaemonTypeOK
    <3> QED
      BY <2>1, <2>3, CallAfter
  <2>5. os' \in Tables /\ freed' \subseteq Pid
    <3>1. Loopd(c, call[c].place, call[c].db) \in Process
      BY <2>2, LoopdProcess
    <3>2. Reaped(c) \in Tables
      BY ReapedTable DEF Tables
    <3>3. [Reaped(c) EXCEPT ![p] = Loopd(c, call[c].place, call[c].db)] \in Tables
      BY <3>1, <3>2 DEF Tables
    <3> QED
      BY <2>3, <3>3, OsTypes
  <2>6. /\ call' \in [Caller -> Call \cup {Null}]
        /\ \A d \in Caller \ {c} : call'[d] = call[d]
    BY <2>3, <2>4
  <2>7. DaemonTypeOK'
    BY <1>0, <1>3, <2>1, <2>4, <2>5, <2>6 DEF Spawns, Tables
  <2>8. LauncherTypeOK'
    <3> HIDE DEF DaemonTypeOK, CallsAre
    <3> QED
      BY <2>7, <1>0, <1>3, <2>1, <2>4, <2>5, <2>6 DEF Spawns, Tables
  <2>9. CallsAre'
    BY <1>0, <1>3, <2>1, <2>4, <2>5, <2>6 DEF Spawns, Tables
  <2> QED
    BY <2>8, <2>9
<1>4. CASE ExitsAtOnce(c)
  <2>1. call[c] # Null /\ call[c].stage = "grace" /\ call[c].pid \in Pid
    BY <1>4 DEF ExitsAtOnce, Call
  <2>2. os' \in Tables /\ freed' \subseteq Pid
    <3>1. [os EXCEPT ![call[c].pid] = Null] \in Tables
      BY DEF Tables
    <3> QED
      BY <1>4, <3>1, OsTypes DEF ExitsAtOnce
  <2> QED
    BY <1>0, <1>4, <2>1, <2>2 DEF ExitsAtOnce, Tables
<1>5. CASE Records(c)
  <2>1. call[c] # Null /\ call[c].stage = "grace" /\ call[c].pid \in Pid
    BY <1>5 DEF Records, Call
  <2> QED
    BY <1>0, <1>5, <2>1 DEF Records
<1> QED
  BY <1>0, <1>1, <1>2, <1>3, <1>4, <1>5 DEF Ensures

(* The end of a call without an answer.                                     *)
LEMMA CutTypes ==
  ASSUME TypesInv, NEW c \in Caller, CutOff(c)
  PROVE  /\ call' \in [Caller -> Call \cup {Null}] /\ excused' \subseteq Place
         /\ call'[c] = Null /\ \A d \in Caller \ {c} : call'[d] = call[d]
         /\ \A d \in Caller : call'[d] # Null => (call'[d].stage = "grace" <=> call'[d].pid # Null)
BY DEF TypesInv, LauncherTypeOK, DaemonTypeOK, CallsAre, CutOff, In, Asking

(* Steps that end a launcher or a server, or look after its children.       *)
LEMMA EndTypes ==
  ASSUME TypesInv
  PROVE  /\ \A l \in Tui : (\/ OpensTui(l) \/ Closes(l) \/ HaltsLoopd(l)
                            \/ Interrupted(l) \/ Killed(l)) => TypesInv'
         /\ \A s \in Server : SessionEnds(s) => TypesInv'
<1> USE LauncherAssumption, DaemonAssumption
    DEF TypesInv, LauncherTypeOK, DaemonTypeOK, CallsAre, Ended, Goto, Runtime, Asking
<1>1. os \in Tables /\ freed \subseteq Pid
  BY DEF Tables
<1>2. \A c : OsBecomes(Orphaned(os, c)) => os' \in Tables /\ freed' \subseteq Pid
  BY <1>1, OrphanedTable, OsTypes
<1>3. ASSUME NEW l \in Tui, OpensTui(l) PROVE TypesInv'
  <2>1. os' \in Tables /\ freed' \subseteq Pid
    BY <1>1, <1>3, ReapedTable, OsTypes DEF OpensTui
  <2> QED
    BY <1>3, <2>1 DEF OpensTui, Tables
<1>4. ASSUME NEW l \in Tui, Closes(l) PROVE TypesInv'
  BY <1>1, <1>2, <1>4 DEF Closes, Tables
<1>5. ASSUME NEW l \in Tui, HaltsLoopd(l) PROVE TypesInv'
  <2> DEFINE D == Dead({p \in Targets(l) : Alive(p)})
  <2>1. D \in Tables
    BY <1>1, DeadTable DEF Alive
  <2>2. os' \in Tables /\ freed' \subseteq Pid
    <3> HIDE DEF D
    <3>1. OsBecomes(Orphaned(D, l))
      BY <1>5 DEF HaltsLoopd, D
    <3>2. Orphaned(D, l) \in Tables
      BY <2>1, OrphanedTable
    <3> QED
      BY <1>1, <3>1, <3>2, OsTypes
  <2> QED
    BY <1>5, <2>2 DEF HaltsLoopd, Tables
<1>6. ASSUME NEW l \in Tui, Interrupted(l) PROVE TypesInv'
  <2>0. spent' \in [DOMAIN Budget -> Nat]
    BY <1>6, SpendTypes DEF Interrupted
  <2>1. CASE pc[l] \in {"replace", "chmod"}
    BY <1>6, <2>0, <2>1 DEF Interrupted
  <2>2. CASE pc[l] \in {"start", "wait", "ensure", "tui"}
    <3>1. /\ Goto(l, "clear") \/ Goto(l, "kept")
          /\ CutOff(l)
          /\ cut' \in {cut, cut \cup {l}}
          /\ UNCHANGED <<os, freed>> \/ OsBecomes(Orphaned(os, l))
          /\ UNCHANGED <<pidFile, status, dir, served, tmp, active, env>>
      BY <1>6, <2>2 DEF Interrupted
    <3>2. os' \in Tables /\ freed' \subseteq Pid
      BY <1>2, <3>1 DEF Tables
    <3>3. /\ call' \in [Caller -> Call \cup {Null}] /\ excused' \subseteq Place
          /\ call'[l] = Null /\ \A d \in Caller \ {l} : call'[d] = call[d]
          /\ \A d \in Caller : call'[d] # Null =>
               (call'[d].stage = "grace" <=> call'[d].pid # Null)
      BY <3>1, CutTypes
    <3>4. DaemonTypeOK'
      BY <2>0, <2>2, <3>1, <3>2, <3>3 DEF Tables
    <3>5. LauncherTypeOK'
      <4> HIDE DEF DaemonTypeOK, CallsAre
      <4> QED
        BY <3>4, <2>0, <2>2, <3>1, <3>2, <3>3 DEF Tables
    <3>6. CallsAre'
      BY <2>0, <2>2, <3>1, <3>2, <3>3 DEF Tables
    <3> QED
      BY <3>5, <3>6
  <2>3. CASE pc[l] \in {"clear", "unlink", "stop", "halt"}
    <3>1. os' \in Tables /\ freed' \subseteq Pid
      BY <1>2, <1>6, <2>3 DEF Interrupted
    <3> QED
      BY <1>6, <2>0, <2>3, <3>1 DEF Interrupted, Tables
  <2> QED
    BY <1>6, <2>1, <2>2, <2>3 DEF Interrupted
<1>7. ASSUME NEW l \in Tui, Killed(l) PROVE TypesInv'
  <2>0. spent' \in [DOMAIN Budget -> Nat]
    BY <1>7, SpendTypes DEF Killed
  <2>1. os' \in Tables /\ freed' \subseteq Pid
    BY <1>2, <1>7 DEF Killed
  <2>2. /\ call' \in [Caller -> Call \cup {Null}] /\ excused' \subseteq Place
        /\ call'[l] = Null /\ \A d \in Caller \ {l} : call'[d] = call[d]
        /\ \A d \in Caller : call'[d] # Null =>
             (call'[d].stage = "grace" <=> call'[d].pid # Null)
    BY <1>7, CutTypes DEF Killed
  <2>7. DaemonTypeOK'
    BY <1>7, <2>0, <2>1, <2>2 DEF Killed, Tables
  <2>8. LauncherTypeOK'
    <3> HIDE DEF DaemonTypeOK, CallsAre
    <3> QED
      BY <2>7, <1>7, <2>0, <2>1, <2>2 DEF Killed, Tables
  <2>9. CallsAre'
    BY <1>7, <2>0, <2>1, <2>2 DEF Killed, Tables
  <2> QED
    BY <2>8, <2>9
<1>8. ASSUME NEW s \in Server, SessionEnds(s) PROVE TypesInv'
  <2>1. os' \in Tables /\ freed' \subseteq Pid
    BY <1>2, <1>8 DEF SessionEnds
  <2>2. /\ call' \in [Caller -> Call \cup {Null}] /\ excused' \subseteq Place
        /\ call'[s] = Null /\ \A d \in Caller \ {s} : call'[d] = call[d]
        /\ \A d \in Caller : call'[d] # Null =>
             (call'[d].stage = "grace" <=> call'[d].pid # Null)
    BY <1>8, CutTypes DEF SessionEnds
  <2>7. DaemonTypeOK'
    BY <1>8, <2>1, <2>2 DEF SessionEnds, Tables
  <2>8. LauncherTypeOK'
    <3> HIDE DEF DaemonTypeOK, CallsAre
    <3> QED
      BY <2>7, <1>8, <2>1, <2>2 DEF SessionEnds, Tables
  <2>9. CallsAre'
    BY <1>8, <2>1, <2>2 DEF SessionEnds, Tables
  <2> QED
    BY <2>8, <2>9
<1> QED
  BY <1>3, <1>4, <1>5, <1>6, <1>7, <1>8

(* Deaths and strangers.                                                    *)
LEMMA UnforeseenTypes ==
  ASSUME TypesInv, NEW p \in Pid, Unforeseen(p)
  PROVE  TypesInv'
<1> USE LauncherAssumption, DaemonAssumption
    DEF TypesInv, LauncherTypeOK, DaemonTypeOK, CallsAre
<1>0. UNCHANGED <<pc, dir, served, tmp, active, env, cut>> /\ os \in Tables
  BY DEF Unforeseen, Tables
<1>1. CASE Dies(p) /\ Spend("death")
  <2>1. Dead({p}) \in Tables
    BY <1>0, <1>1, DeadTable DEF Dies, Alive
  <2>2. os' \in Tables /\ freed' \subseteq Pid
    BY <1>1, <2>1, OsTypes DEF Dies
  <2> QED
    BY <1>0, <1>1, <2>2, SpendTypes DEF Dies, Tables
<1>2. CASE StrangerTakes(p) /\ Spend("stranger")
  <2>1. [kind |-> "other", live |-> TRUE, parent |-> Null, by |-> Null,
         place |-> Null, db |-> Null] \in Process
    BY DEF Process
  <2> QED
    BY <1>0, <1>2, <2>1, SpendTypes DEF StrangerTakes
<1>3. CASE StrangerLeaves(p) /\ UNCHANGED spent
  BY <1>0, <1>3 DEF StrangerLeaves
<1> QED
  BY <1>1, <1>2, <1>3 DEF Unforeseen

LEMMA TypesStep == TypesInv /\ [Next]_vars => TypesInv'
<1> SUFFICES ASSUME TypesInv, [Next]_vars PROVE TypesInv'
  OBVIOUS
<1>1. CASE UNCHANGED vars
  BY <1>1 DEF vars, dvars, lvars, TypesInv, LauncherTypeOK, DaemonTypeOK, CallsAre
<1>2. ASSUME NEW l \in Tui, TuiStep(l) \/ Interrupted(l) \/ Killed(l)
      PROVE  TypesInv'
  BY <1>2, TuiTypes, AskTypes, EndTypes DEF TuiStep
<1>3. ASSUME NEW s \in Server, ServerStep(s)
      PROVE  TypesInv'
  BY <1>3, AskTypes, EndTypes DEF ServerStep
<1> QED
  BY <1>1, <1>2, <1>3, EnsuresTypes, UnforeseenTypes DEF Next

LEMMA TypesInvariant == Spec => []TypesInv
BY TypesInitially, TypesStep, PTL DEF Spec

(* Types: the process table, the pid files and the calls of                  *)
(* ensure_daemon_running keep their shapes, a launcher only calls it where   *)
(* launch_tui does, and a server only while its session is up.               *)
THEOREM LauncherTypes == Spec => []LauncherTypeOK
BY TypesInvariant, PTL DEF TypesInv

-----------------------------------------------------------------------------
(* The active-runtime file *)

(* ActiveHasLauncher is not inductive: a launcher may rename the temporary   *)
(* file that another one has written.  Listed also says whose that file is.  *)
Unrenamed == {"replace", "failed", "killed"}
Leaving   == {"stop", "halt", "done"}

Listed ==
  /\ tmp # Null => \E l \in Tui : dir[l] = tmp /\ pc[l] \in Unrenamed
  /\ active # Null =>
       \E l \in Tui : dir[l] = active /\ pc[l] # "off" /\ (pc[l] \in Leaving => l \in cut)

(* A step that leaves both files alone, and of whose launchers one at most   *)
(* goes on, to a place where it still owns what it owned.                   *)
LEMMA ListedKept ==
  ASSUME TypesInv, Listed, NEW l \in Tui, NEW label, Goto(l, label),
         UNCHANGED <<dir, tmp, active>>, cut \subseteq cut',
         pc[l] \in Unrenamed => label \in Unrenamed,
         label # "off",
         (label \in Leaving /\ dir[l] = active) => (pc[l] \in Leaving \/ l \in cut')
  PROVE  Listed'
<1>1. pc' = [pc EXCEPT ![l] = label] /\ DOMAIN pc = Tui
  BY DEF TypesInv, LauncherTypeOK, Goto
<1> QED
  BY <1>1 DEF Listed

LEMMA ListedTui ==
  ASSUME TypesInv, Listed, NEW l \in Tui, TuiStep(l) \/ Interrupted(l) \/ Killed(l)
  PROVE  Listed'
<1>0. DOMAIN pc = Tui /\ DOMAIN dir = Tui
  BY DEF TypesInv, LauncherTypeOK
<1>1. CASE WritesTmp(l)
  <2>1. PICK x \in Runtime : dir' = [dir EXCEPT ![l] = x] /\ tmp' = x
    BY <1>1 DEF WritesTmp
  <2>2. /\ pc[l] = "off" /\ pc' = [pc EXCEPT ![l] = "replace"]
        /\ active' = active /\ cut' = cut
    BY <1>1 DEF WritesTmp, Goto
  <2> QED
    BY <1>0, <2>1, <2>2 DEF Listed, Unrenamed, Leaving
<1>2. CASE Replaces(l)
  <2>1. CASE tmp # Null
    <3>1. /\ active' = tmp /\ tmp' = Null /\ dir' = dir /\ cut' = cut
          /\ pc' = [pc EXCEPT ![l] = "chmod"]
      BY <1>2, <2>1 DEF Replaces, Goto
    <3>2. PICK m \in Tui : dir[m] = tmp /\ pc[m] \in Unrenamed
      BY <2>1 DEF Listed
    <3>3. dir'[m] = active' /\ pc'[m] # "off" /\ pc'[m] \notin Leaving
      BY <1>0, <3>1, <3>2 DEF Unrenamed, Leaving
    <3> QED
      BY <3>1, <3>3 DEF Listed
  <2>2. CASE tmp = Null
    BY <1>2, <2>2, ListedKept DEF Replaces, Unrenamed, Leaving
  <2> QED
    BY <2>1, <2>2
<1>3. CASE Unlinks(l)
  <2>1. /\ pc[l] = "unlink" /\ pc' = [pc EXCEPT ![l] = "stop"]
        /\ active' = Null /\ UNCHANGED <<dir, tmp, cut>>
    BY <1>3 DEF Unlinks, Goto
  <2> QED
    BY <1>0, <2>1 DEF Listed, Unrenamed, Leaving
<1>4. CASE Compares(l)
  BY <1>4, ListedKept DEF Compares, Unrenamed, Leaving
<1>5. CASE Chmods(l) \/ StartsServer(l) \/ UsesServer(l) \/ ServerAnswers(l) \/ SkipsLoopd(l)
  BY <1>5, ListedKept DEF Chmods, StartsServer, UsesServer, ServerAnswers, SkipsLoopd,
     Unrenamed, Leaving
<1>6. CASE OpensTui(l) \/ Closes(l) \/ StopsServer(l) \/ HaltsLoopd(l)
  BY <1>6, ListedKept DEF OpensTui, Closes, StopsServer, HaltsLoopd, Unrenamed, Leaving
<1>7. CASE Interrupted(l)
  BY <1>7, ListedKept DEF Interrupted, Unrenamed, Leaving
<1>8. CASE Killed(l)
  BY <1>8, ListedKept DEF Killed, Unrenamed, Leaving
<1> QED
  BY <1>1, <1>2, <1>3, <1>4, <1>5, <1>6, <1>7, <1>8 DEF TuiStep

LEMMA ListedInvariant == Spec => [](TypesInv /\ Listed)
<1>1. Init => Listed
  BY DEF Init, Listed
<1>2. TypesInv /\ Listed /\ [Next]_vars => Listed'
  <2> SUFFICES ASSUME TypesInv, Listed, [Next]_vars PROVE Listed'
    OBVIOUS
  <2>1. ASSUME UNCHANGED <<pc, dir, tmp, active, cut>> PROVE Listed'
    BY <2>1 DEF Listed
  <2>2. ASSUME NEW s \in Server, ServerStep(s) PROVE Listed'
    BY <2>1, <2>2 DEF ServerStep, SessionStarts, SessionEnds, OtherTool, LoopCreate,
       ChoosesStore, Resolves, lvars
  <2>3. ASSUME NEW c \in Caller, CallStep(c) PROVE Listed'
    BY <2>1, <2>3 DEF CallStep, lvars
  <2>4. ASSUME NEW p \in Pid, Unforeseen(p) PROVE Listed'
    BY <2>1, <2>4 DEF Unforeseen
  <2> QED
    BY <2>1, <2>2, <2>3, <2>4, ListedTui DEF Next, vars, lvars
<1> QED
  BY <1>1, <1>2, TypesInitially, TypesStep, PTL DEF Spec

(* The active-runtime file never outlives its launchers, whichever of them   *)
(* renames whose temporary file and whichever unlinks whose.                 *)
THEOREM ActiveOwned == Spec => []ActiveHasLauncher
<1>1. Listed => ActiveHasLauncher
  BY DEF Listed, ActiveHasLauncher, Leaving
<1> QED
  BY <1>1, ListedInvariant, PTL

===========================================================================
