-------------------------- MODULE DaemonManager --------------------------
(***************************************************************************)
(* ensure_daemon_running (daemon.py): processes that share a pid file make *)
(* sure that a codex-loopd runs.  The operating system is a table of       *)
(* processes; a child that died stays in it as a zombie until its parent   *)
(* polls it or ends, and a pid that was freed may be given out again.      *)
(* Autostart is on (without it a call only reads the pid file).            *)
(***************************************************************************)
EXTENDS FiniteSets, Naturals

CONSTANTS
  Pid,
  Caller,   \* processes that call ensure_daemon_running
  Place,    \* runtime directories: each holds a pid file and a database
  ProcFs,   \* whether is_pid_running can tell a zombie, by /proc
  Null

ASSUME DaemonAssumption ==
  /\ ProcFs \in BOOLEAN
  /\ Null \notin Pid \cup Caller \cup Place

VARIABLES
  os,       \* the process that has a pid
  pidFile,  \* the pid in the loopd.pid of a directory
  call,     \* per caller: its call of ensure_daemon_running
  status,   \* per caller: the DaemonStatus of its last call
  freed,    \* history: pids of daemons that are gone
  excused   \* history: places where two calls overlapped, or one was cut off

dvars == <<os, pidFile, call, status, freed, excused>>

Process == [kind : {"loopd", "other"}, live : BOOLEAN,
            parent : Caller \cup {Null}, by : Caller \cup {Null},
            place : Place \cup {Null}, db : Place \cup {Null}]

Call == [stage : {"store", "resolve", "look", "spawn", "grace"},
         place : Place \cup {Null}, db : Place \cup {Null}, pid : Pid \cup {Null}]

Status == [running : BOOLEAN, started : BOOLEAN, pid : Pid]

ASSUME NullAssumption == Null \notin Process /\ Null \notin Call /\ Null \notin Status

DaemonTypeOK ==
  /\ os \in [Pid -> Process \cup {Null}]
  /\ pidFile \in [Place -> Pid \cup {Null}]
  /\ call \in [Caller -> Call \cup {Null}]
  /\ status \in [Caller -> Status \cup {Null}]
  /\ freed \subseteq Pid
  /\ excused \subseteq Place
  /\ \A c \in Caller : call[c] # Null =>
       (call[c].stage = "grace" <=> call[c].pid # Null)

DaemonInit ==
  /\ os = [p \in Pid |-> Null]
  /\ pidFile = [x \in Place |-> Null]
  /\ call = [c \in Caller |-> Null]
  /\ status = [c \in Caller |-> Null]
  /\ freed = {}
  /\ excused = {}

-----------------------------------------------------------------------------
(* Processes *)

Exists(p) == os[p] # Null
Alive(p)  == Exists(p) /\ os[p].live

\* Mutant: a zombie counts as running.
IsPidRunningNoProc(p) == Exists(p)

IsPidRunning(p) == Exists(p) /\ (os[p].live \/ ~ProcFs)

\* The table when the processes P die: a zombie if the parent still runs.
Dead(P) ==
  [p \in Pid |-> IF p \notin P THEN os[p]
                 ELSE IF os[p].parent = Null THEN Null
                 ELSE [os[p] EXCEPT !.live = FALSE]]

\* The table when c has looked after its dead children, as Popen does for
\* those whose handle was dropped.
Reaped(c) ==
  [p \in Pid |-> IF Exists(p) /\ ~os[p].live /\ os[p].parent = c THEN Null ELSE os[p]]

\* The table T when c has ended: its children are adopted, its zombies go.
Orphaned(T, c) ==
  [p \in Pid |-> IF T[p] = Null \/ T[p].parent # c THEN T[p]
                 ELSE IF T[p].live THEN [T[p] EXCEPT !.parent = Null]
                 ELSE Null]

\* os becomes T; the pids of daemons that are no longer in it are noted.
OsBecomes(T) ==
  /\ os' = T
  /\ freed' = freed \cup {p \in Pid : Exists(p) /\ os[p].kind = "loopd" /\ T[p] = Null}

Loopd(c, x, db) ==
  [kind |-> "loopd", live |-> TRUE, parent |-> c, by |-> c, place |-> x, db |-> db]

Dies(p) ==
  /\ Alive(p)
  /\ os[p].kind # "other"
  /\ OsBecomes(Dead({p}))
  /\ UNCHANGED <<pidFile, call, status, excused>>

\* Some other program of the same user gets the pid, or ends.
StrangerTakes(p) ==
  /\ ~Exists(p)
  /\ os' = [os EXCEPT ![p] = [kind |-> "other", live |-> TRUE, parent |-> Null,
                              by |-> Null, place |-> Null, db |-> Null]]
  /\ UNCHANGED <<pidFile, call, status, freed, excused>>

StrangerLeaves(p) ==
  /\ Exists(p)
  /\ os[p].kind = "other"
  /\ os' = [os EXCEPT ![p] = Null]
  /\ UNCHANGED <<pidFile, call, status, freed, excused>>

-----------------------------------------------------------------------------
(* One call of ensure_daemon_running *)

In(c, stage) == call[c] # Null /\ call[c].stage = stage

Starting(x) == {c \in Caller : /\ In(c, "spawn") \/ In(c, "grace")
                               /\ call[c].place = x}

Asks(x, db) == [stage |-> "look", place |-> x, db |-> db, pid |-> Null]

Returns(c, running, started, p) ==
  /\ call' = [call EXCEPT ![c] = Null]
  /\ status' = [status EXCEPT ![c] = [running |-> running, started |-> started, pid |-> p]]

\* daemon_status: the pid file names a process that runs.
Running(x) == pidFile[x] # Null /\ IsPidRunning(pidFile[x])

Finds(c) ==
  /\ In(c, "look")
  /\ Running(call[c].place)
  /\ Returns(c, TRUE, FALSE, pidFile[call[c].place])
  /\ UNCHANGED <<os, pidFile, freed, excused>>

Misses(c) ==
  /\ In(c, "look")
  /\ ~Running(call[c].place)
  /\ call' = [call EXCEPT ![c].stage = "spawn"]
  /\ excused' = IF Starting(call[c].place) = {} THEN excused
                ELSE excused \cup {call[c].place}
  /\ UNCHANGED <<os, pidFile, status, freed>>

Spawns(c) ==
  /\ In(c, "spawn")
  /\ \E p \in Pid :
       /\ ~Exists(p)
       /\ OsBecomes([Reaped(c) EXCEPT ![p] = Loopd(c, call[c].place, call[c].db)])
       /\ call' = [call EXCEPT ![c].stage = "grace", ![c].pid = p]
  /\ UNCHANGED <<pidFile, status, excused>>

\* The daemon ended within the grace period: no pid file is written.
ExitsAtOnce(c) ==
  /\ In(c, "grace")
  /\ ~os[call[c].pid].live
  /\ OsBecomes([os EXCEPT ![call[c].pid] = Null])
  /\ Returns(c, FALSE, TRUE, call[c].pid)
  /\ UNCHANGED <<pidFile, excused>>

\* Mutant: the pid file that is there already is kept.
RecordsOnce(c) ==
  /\ In(c, "grace")
  /\ os[call[c].pid].live
  /\ pidFile' = [pidFile EXCEPT ![call[c].place] = IF @ = Null THEN call[c].pid ELSE @]
  /\ Returns(c, TRUE, TRUE, call[c].pid)
  /\ UNCHANGED <<os, freed, excused>>

Records(c) ==
  /\ In(c, "grace")
  /\ os[call[c].pid].live
  /\ pidFile' = [pidFile EXCEPT ![call[c].place] = call[c].pid]
  /\ Returns(c, TRUE, TRUE, call[c].pid)
  /\ UNCHANGED <<os, freed, excused>>

\* Mutant: the call goes on.
CutOffLate(c) ==
  /\ UNCHANGED call
  /\ excused' = IF In(c, "grace") THEN excused \cup {call[c].place} ELSE excused

\* The call of c ends without an answer: an exception, or the end of c.
CutOff(c) ==
  /\ call' = [call EXCEPT ![c] = Null]
  /\ excused' = IF In(c, "grace") THEN excused \cup {call[c].place} ELSE excused

Ensures(c) == Finds(c) \/ Misses(c) \/ Spawns(c) \/ ExitsAtOnce(c) \/ Records(c)

-----------------------------------------------------------------------------
Daemons(x) == {p \in Pid : Alive(p) /\ os[p].kind = "loopd" /\ os[p].place = x}

(* A directory has at most one daemon, whatever dies, ends or has its pid    *)
(* reused, unless two callers that both found none overlapped, or one was    *)
(* cut off after its spawn and before it wrote the pid file.                 *)
OneDaemon == \A x \in Place \ excused : Cardinality(Daemons(x)) <= 1

(* What a call reports as running is alive when it returns, zombies and      *)
(* early exits notwithstanding, and is a daemon of the caller's directory    *)
(* unless its pid had belonged to a daemon that is gone.                     *)
ReportedDaemonAlive ==
  [][\A c \in Caller :
       /\ call[c] # Null /\ call'[c] = Null
       /\ status'[c] # Null /\ status'[c] # status[c] /\ status'[c].running
       => LET p == status'[c].pid
          IN  /\ os'[p] # Null /\ os'[p].live
              /\ p \in freed \/ (os'[p].kind = "loopd" /\ os'[p].place = call[c].place)]_dvars

=============================================================================
