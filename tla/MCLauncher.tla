---------------------------- MODULE MCLauncher ----------------------------
(* Small instances of Launcher for TLC. *)
EXTENDS Launcher, TLC

MCBudget(deaths, strangers, creates, breaks) ==
  [b \in {"death", "stranger", "create", "break"} |->
     CASE b = "death"    -> deaths
       [] b = "stranger" -> strangers
       [] b = "create"   -> creates
       [] OTHER          -> breaks]

MCOneEach == MCBudget(1, 1, 1, 1)

MCOneCreate == MCBudget(0, 0, 1, 0)

MCSymmetry == Permutations(Pid) \cup Permutations(Tui) \cup Permutations(Runtime)

=============================================================================
