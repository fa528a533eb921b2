----------------------------- MODULE Launcher -----------------------------
(***************************************************************************)
(* codex-loop tui (tui.py), the file active-runtime.json it writes         *)
(* (runtime_state.py), and loop MCP servers in Codex sessions, whose       *)
(* loop_create starts daemons too (mcp_server.py).  Launchers and servers  *)
(* are the callers of DaemonManager.                                       *)
(***************************************************************************)
EXTENDS DaemonManager

CONSTANTS
  Tui, Server,
  Inherits, \* MCP servers that Codex gives the environment of their TUI
  Home,     \* the place used when no runtime is configured
  Budget    \* bounds: how many deaths, strangers and loop_create calls
            \* there are, and how many kills or interrupts of launchers

ASSUME LauncherAssumption ==
  /\ Caller = Tui \cup Server
  /\ Tui \cap Server = {}
  /\ Inherits \subseteq Server
  /\ Home \in Place
  /\ Budget \in [{"death", "stranger", "create", "break"} -> Nat]

Runtime == Place \ {Home}

VARIABLES
  pc,       \* where each launcher is
  dir,      \* its runtime directory
  served,   \* launchers whose own codex app-server runs
  tmp,      \* active-runtime.json.tmp: the runtime it describes, or Null
  active,   \* active-runtime.json, likewise
  env,      \* per MCP server: the runtime its environment names, or Home
  cut,      \* history: launchers whose clean-up an interrupt cut short
  spent

lvars == <<pc, dir, served, tmp, active, env, cut, spent>>
vars  == <<dvars, lvars>>

Ended == {"done", "kept", "failed", "killed"}

LauncherTypeOK ==
  /\ DaemonTypeOK
  /\ pc \in [Tui -> {"off", "replace", "chmod", "start", "wait", "ensure", "tui",
                     "clear", "unlink", "stop", "halt"} \cup Ended]
  /\ dir \in [Tui -> Runtime \cup {Null}]
  /\ served \subseteq Tui
  /\ {tmp, active} \subseteq Runtime \cup {Null}
  /\ env \in [Server -> Place \cup {Null}]
  /\ cut \subseteq Tui
  /\ spent \in [DOMAIN Budget -> Nat]
  /\ \A l \in Tui : call[l] # Null => pc[l] = "ensure"
  /\ \A s \in Server : call[s] # Null => env[s] # Null

Init ==
  /\ DaemonInit
  /\ pc = [l \in Tui |-> "off"]
  /\ dir = [l \in Tui |-> Null]
  /\ served = {}
  /\ tmp = Null /\ active = Null
  /\ env = [s \in Server |-> Null]
  /\ cut = {}
  /\ spent = [b \in DOMAIN Budget |-> 0]

Goto(l, label) == pc' = [pc EXCEPT ![l] = label]

Spend(b) == spent[b] < Budget[b] /\ spent' = [spent EXCEPT ![b] = @ + 1]

-----------------------------------------------------------------------------
(* write_active_runtime: all launchers write the same temporary file *)

WritesTmp(l) ==
  /\ pc[l] = "off"
  /\ \E x \in Runtime : dir' = [dir EXCEPT ![l] = x] /\ tmp' = x
  /\ Goto(l, "replace")
  /\ UNCHANGED <<dvars, served, active, env, cut, spent>>

\* The rename fails when another launcher has renamed the file already.
Replaces(l) ==
  /\ pc[l] = "replace"
  /\ IF tmp # Null THEN active' = tmp /\ tmp' = Null /\ Goto(l, "chmod")
     ELSE Goto(l, "failed") /\ UNCHANGED <<active, tmp>>
  /\ UNCHANGED <<dvars, dir, served, env, cut, spent>>

Chmods(l) ==
  /\ pc[l] = "chmod"
  /\ Goto(l, IF active # Null THEN "start" ELSE "failed")
  /\ UNCHANGED <<dvars, dir, served, tmp, active, env, cut, spent>>

-----------------------------------------------------------------------------
(* The body of launch_tui *)

StartsServer(l) ==
  /\ pc[l] = "start"
  /\ served' = served \cup {l}
  /\ Goto(l, "wait")
  /\ UNCHANGED <<dvars, dir, tmp, active, env, cut, spent>>

\* --app-server: somebody else's server.
UsesServer(l) ==
  /\ pc[l] = "start"
  /\ Goto(l, "wait")
  /\ UNCHANGED <<dvars, dir, served, tmp, active, env, cut, spent>>

\* Something listens at the url; whose server it is, is not looked at.
ServerAnswers(l) ==
  /\ pc[l] = "wait"
  /\ call' = [call EXCEPT ![l] = Asks(dir[l], dir[l])]
  /\ Goto(l, "ensure")
  /\ UNCHANGED <<os, pidFile, status, freed, excused, dir, served, tmp, active, env, cut, spent>>

\* --no-loopd.
SkipsLoopd(l) ==
  /\ pc[l] = "wait"
  /\ Goto(l, "tui")
  /\ UNCHANGED <<dvars, dir, served, tmp, active, env, cut, spent>>

OpensTui(l) ==
  /\ pc[l] = "ensure"
  /\ call[l] = Null
  /\ OsBecomes(Reaped(l))
  /\ Goto(l, "tui")
  /\ UNCHANGED <<pidFile, call, status, excused, dir, served, tmp, active, env, cut, spent>>

\* No server could be started, the wait timed out or the TUI ended: the
\* clean-up begins, or with --keep-running the launcher just ends.
Closes(l) ==
  /\ pc[l] \in {"start", "wait", "tui"}
  /\ \/ Goto(l, "clear") /\ UNCHANGED <<os, freed>>
     \/ Goto(l, "kept") /\ OsBecomes(Orphaned(os, l))
  /\ UNCHANGED <<pidFile, call, status, excused, dir, served, tmp, active, env, cut, spent>>

-----------------------------------------------------------------------------
(* The clean-up of launch_tui *)

\* Mutant: the comparison is the wrong way round.
ComparesInverted(l) ==
  /\ pc[l] = "clear"
  /\ Goto(l, IF active \notin {dir[l], Null} THEN "unlink" ELSE "stop")
  /\ UNCHANGED <<dvars, dir, served, tmp, active, env, cut, spent>>

\* clear_active_runtime reads the file, compares, and only then unlinks.
Compares(l) ==
  /\ pc[l] = "clear"
  /\ Goto(l, IF active = dir[l] THEN "unlink" ELSE "stop")
  /\ UNCHANGED <<dvars, dir, served, tmp, active, env, cut, spent>>

Unlinks(l) ==
  /\ pc[l] = "unlink"
  /\ active' = Null
  /\ Goto(l, "stop")
  /\ UNCHANGED <<dvars, dir, served, tmp, env, cut, spent>>

StopsServer(l) ==
  /\ pc[l] = "stop"
  /\ served' = served \ {l}
  /\ Goto(l, "halt")
  /\ UNCHANGED <<dvars, dir, tmp, active, env, cut, spent>>

\* Mutants: any daemon reported to the launcher is stopped, also one it found
\* running; the daemon the pid file names is stopped.
TargetsReported(l) == IF status[l] = Null THEN {} ELSE {p \in {status[l].pid} : IsPidRunning(p)}

TargetsRecorded(l) ==
  IF status[l] = Null \/ ~status[l].started THEN {}
  ELSE {p \in {pidFile[dir[l]]} \ {Null} : IsPidRunning(p)}

\* The pid to terminate: the daemon this launcher started, if it still runs.
Targets(l) ==
  IF status[l] = Null \/ ~status[l].started THEN {}
  ELSE {p \in {status[l].pid} : IsPidRunning(p)}

HaltsLoopd(l) ==
  /\ pc[l] = "halt"
  /\ OsBecomes(Orphaned(Dead({p \in Targets(l) : Alive(p)}), l))
  /\ Goto(l, "done")
  /\ UNCHANGED <<pidFile, call, status, excused, dir, served, tmp, active, env, cut, spent>>

-----------------------------------------------------------------------------
(* KeyboardInterrupt and death of a launcher *)

\* Before the try block the launcher just ends; in it, a call of
\* ensure_daemon_running that was under way gives no answer, and the clean-up
\* begins, which --keep-running skips; in the clean-up, the rest is skipped.
Interrupted(l) ==
  /\ Spend("break")
  /\ \/ /\ pc[l] \in {"replace", "chmod"}
        /\ Goto(l, "failed")
        /\ UNCHANGED <<os, freed, call, excused, cut>>
     \/ /\ pc[l] \in {"start", "wait", "ensure", "tui"}
        /\ CutOff(l)
        /\ \/ /\ Goto(l, "clear")
              /\ cut' = IF In(l, "grace") THEN cut \cup {l} ELSE cut
              /\ UNCHANGED <<os, freed>>
           \/ Goto(l, "kept") /\ OsBecomes(Orphaned(os, l)) /\ UNCHANGED cut
     \/ /\ pc[l] \in {"clear", "unlink", "stop", "halt"}
        /\ Goto(l, "done")
        /\ OsBecomes(Orphaned(os, l))
        /\ cut' = cut \cup {l}
        /\ UNCHANGED <<call, excused>>
  /\ UNCHANGED <<pidFile, status, dir, served, tmp, active, env>>

Killed(l) ==
  /\ pc[l] \notin {"off"} \cup Ended
  /\ Spend("break")
  /\ Goto(l, "killed")
  /\ OsBecomes(Orphaned(os, l))
  /\ CutOff(l)
  /\ UNCHANGED <<pidFile, status, dir, served, tmp, active, env, cut>>

-----------------------------------------------------------------------------
(* MCP servers *)

\* Codex starts the server in a session of some TUI, with or without the
\* environment of that TUI.
SessionStarts(s) ==
  /\ env[s] = Null
  /\ \E l \in Tui :
       /\ pc[l] = "tui"
       /\ env' = [env EXCEPT ![s] = IF s \in Inherits THEN dir[l] ELSE Home]
  /\ UNCHANGED <<dvars, pc, dir, served, tmp, active, cut, spent>>

SessionEnds(s) ==
  /\ env[s] # Null
  /\ env' = [env EXCEPT ![s] = Null]
  /\ OsBecomes(Orphaned(os, s))
  /\ CutOff(s)
  /\ status' = [status EXCEPT ![s] = Null]
  /\ UNCHANGED <<pidFile, pc, dir, served, tmp, active, cut, spent>>

\* apply_active_runtime_to_env.
Applied(s) == IF active = Null THEN env[s] ELSE active

\* Mutant: the active runtime is asked before the environment.
FileOrEnv(s) == IF active # Null THEN active ELSE env[s]

\* active_runtime_value: the environment, else the file, else the default.
EnvOrFile(s) == IF env[s] # Home THEN env[s] ELSE IF active # Null THEN active ELSE Home

\* Every tool looks up the store; the others do nothing with daemons.
OtherTool(s) ==
  /\ env[s] # Null
  /\ call[s] = Null
  /\ env' = [env EXCEPT ![s] = Applied(s)]
  /\ UNCHANGED <<dvars, pc, dir, served, tmp, active, cut, spent>>

LoopCreate(s) ==
  /\ env[s] # Null
  /\ call[s] = Null
  /\ Spend("create")
  /\ env' = [env EXCEPT ![s] = Applied(s)]
  /\ call' = [call EXCEPT ![s] = [stage |-> "store", place |-> Null, db |-> Null, pid |-> Null]]
  /\ UNCHANGED <<os, pidFile, status, freed, excused, pc, dir, served, tmp, active, cut>>

\* default_db_path: the database the task is written to.
ChoosesStore(s) ==
  /\ In(s, "store")
  /\ call' = [call EXCEPT ![s].stage = "resolve", ![s].db = EnvOrFile(s)]
  /\ UNCHANGED <<os, pidFile, status, freed, excused, lvars>>

\* The app server and the pid file are looked up anew.  Without a runtime a
\* task for the app-server runner gets no daemon, only a status.
Resolves(s) ==
  /\ In(s, "resolve")
  /\ \/ call' = [call EXCEPT ![s] = Asks(EnvOrFile(s), @.db)]
     \/ EnvOrFile(s) = Home /\ call' = [call EXCEPT ![s] = Null]
  /\ UNCHANGED <<os, pidFile, status, freed, excused, lvars>>

-----------------------------------------------------------------------------
TuiStep(l) ==
  \/ WritesTmp(l)
  \/ Replaces(l)
  \/ Chmods(l)
  \/ StartsServer(l)
  \/ UsesServer(l)
  \/ ServerAnswers(l)
  \/ SkipsLoopd(l)
  \/ OpensTui(l)
  \/ Closes(l)
  \/ Compares(l)
  \/ Unlinks(l)
  \/ StopsServer(l)
  \/ HaltsLoopd(l)

ServerStep(s) ==
  \/ SessionStarts(s)
  \/ SessionEnds(s)
  \/ OtherTool(s)
  \/ LoopCreate(s)
  \/ ChoosesStore(s)
  \/ Resolves(s)

CallStep(c) == Ensures(c) /\ UNCHANGED lvars

\* A stranger only gets pids that a daemon has left.
Unforeseen(p) ==
  /\ UNCHANGED <<pc, dir, served, tmp, active, env, cut>>
  /\ \/ Dies(p) /\ Spend("death")
     \/ p \in freed /\ StrangerTakes(p) /\ Spend("stranger")
     \/ StrangerLeaves(p) /\ UNCHANGED spent

Next ==
  \/ \E l \in Tui : TuiStep(l) \/ Interrupted(l) \/ Killed(l)
  \/ \E s \in Server : ServerStep(s)
  \/ \E c \in Caller : CallStep(c)
  \/ \E p \in Pid : Unforeseen(p)

Spec == Init /\ [][Next]_vars

-----------------------------------------------------------------------------
(* A launcher that came to its end leaves nothing running that it started,   *)
(* neither app server nor daemon, although another caller may have replaced  *)
(* its daemon in the pid file; unless it was told to keep them, was killed,  *)
(* or was interrupted in its clean-up or between a spawn and its answer.     *)
ExitStopsOwn ==
  \A l \in Tui \ cut : pc[l] = "done" =>
    /\ l \notin served
    /\ \A p \in Pid : Alive(p) => os[p].by # l

(* The clean-up of a launcher ends no process but its own children, not a    *)
(* daemon that it found running nor one another caller recorded; unless the  *)
(* pid of its own daemon was freed, by an early exit, and given out again.   *)
ExitHarmsNoOther ==
  [][\A l \in Tui : pc[l] = "halt" /\ pc'[l] = "done" =>
       \A p \in Pid : Alive(p) /\ (os'[p] = Null \/ ~os'[p].live) =>
         os[p].by = l \/ p \in freed]_vars

(* The active-runtime file never outlives its launchers: it names a runtime  *)
(* of one that is up, unless one of that runtime was killed, was told to     *)
(* keep running, or failed or was interrupted while it wrote or cleared the  *)
(* file.                                                                     *)
ActiveHasLauncher ==
  active # Null =>
    \E l \in Tui :
      /\ dir[l] = active
      /\ pc[l] \in {"stop", "halt", "done"} => l \in cut

(* The daemon that is recorded for a runtime serves the database of that     *)
(* runtime, so that the tasks created there run; unless loop_create was      *)
(* called where no runtime was known and the active-runtime file came or     *)
(* went during the call.                                                     *)
RecordedDaemonServes ==
  [][\A x \in Place : pidFile'[x] # pidFile[x] =>
       LET d == os[pidFile'[x]]
       IN  d.db = x \/ (d.by \in Server /\ env[d.by] = Home)]_vars

(* "the MCP server reads this file if Codex does not inherit the TUI         *)
(* environment into MCP subprocesses": a server that did inherit it creates  *)
(* its tasks in the runtime of its own TUI.                                  *)
OwnRuntime == [][\A s \in Inherits : env[s] # Null => env'[s] \in {env[s], Null}]_vars

=============================================================================
