---------------------------- MODULE MCLoopSystem ----------------------------
(* Small instances of LoopSystem for TLC. *)
EXTENDS LoopSystem, TLC

Fixed(max, visibility, runner) ==
  [schedule |-> "fixed", interval |-> 1, maxRuns |-> max,
   visibility |-> visibility, runner |-> runner]

MCOneShot == {Fixed(1, "background_ok", "exec")}

MCTwoLimits == {Fixed(1, "background_ok", "codex-mcp"),
                Fixed(Null, "background_ok", "codex-mcp")}

MCTwoLimitsExec == {Fixed(1, "background_ok", "exec"), Fixed(Null, "background_ok", "exec")}

MCForever == {Fixed(Null, "background_ok", "exec")}

MCAppServer == {Fixed(Null, "visible_only", "app-server")}

MCTwoPolicies == {Fixed(Null, "background_ok", "codex-mcp"),
                  Fixed(Null, "thread_only", "codex-mcp")}

MCExec == [d \in Daemon |-> "exec"]

MCAppServers == [d \in Daemon |-> "app-server"]

MCCodexMcp == [d \in Daemon |-> "codex-mcp"]

MCNoJitter == [t \in Task |-> 0]

MCBudget(updates, binds, crashes) ==
  [b \in {"update", "bind", "crash"} |->
     CASE b = "update" -> updates [] b = "bind" -> binds [] OTHER -> crashes]

MCNoBudget == MCBudget(0, 0, 0)

MCOneBind == MCBudget(0, 1, 0)

MCOneUpdate == MCBudget(1, 0, 0)

MCUpdateAndCrash == MCBudget(1, 0, 1)

MCBindAndCrash == MCBudget(0, 1, 1)

MCSymmetry == Permutations(Run) \cup Permutations(Daemon) \cup Permutations(Task)

=============================================================================
