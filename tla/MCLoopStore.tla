---------------------------- MODULE MCLoopStore ----------------------------
(* Small instances of LoopStore for TLC. *)
EXTENDS LoopStore, TLC

MCTwoKinds ==
  {[schedule |-> "fixed", interval |-> 1, maxRuns |-> Null,
    visibility |-> "background_ok", runner |-> "exec"],
   [schedule |-> "dynamic", interval |-> 0, maxRuns |-> 2,
    visibility |-> "visible_only", runner |-> "app-server"]}

MCFixed == {a \in MCTwoKinds : a.schedule = "fixed"}

MCFixedTwice == {[a EXCEPT !.maxRuns = 2] : a \in MCFixed}

MCNoJitter == [t \in Task |-> 0]

MCSymmetry == Permutations(Run) \cup Permutations(Task)

=============================================================================
