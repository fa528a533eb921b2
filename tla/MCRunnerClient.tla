-------------------------- MODULE MCRunnerClient --------------------------
(* Small instances of RunnerClient for TLC. *)
EXTENDS RunnerClient, TLC

MCOneEach == [b \in {"other", "request", "break"} |-> 1]

=============================================================================
