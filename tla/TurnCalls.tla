---------------------------- MODULE TurnCalls ----------------------------
(***************************************************************************)
(* What a daemon may rely on when it calls runner.run for one iteration    *)
(* after another: a run is reported completed only when the Codex turn it  *)
(* started is over.  LoopSystem is built on this.                          *)
(***************************************************************************)
EXTENDS Naturals

CONSTANT Runs  \* how many iterations

VARIABLES
  turn,      \* per run: its turn has not begun, is live, or is over
  outcome,   \* per run: what runner.run returned, "none" before that
  confused   \* runs whose answers the client could not tell apart

tvars == <<turn, outcome, confused>>

TInit ==
  /\ turn = [r \in 1..Runs |-> "none"]
  /\ outcome = [r \in 1..Runs |-> "none"]
  /\ confused = {}

\* The run before r has returned.
Reached(r) == \A q \in 1..(r - 1) : outcome[q] # "none"

\* The turn may begin after its client gave up, and outlive it.
Begins(r) ==
  /\ Reached(r)
  /\ turn[r] = "none"
  /\ turn' = [turn EXCEPT ![r] = "live"]
  /\ UNCHANGED <<outcome, confused>>

Ends(r) ==
  /\ turn[r] = "live"
  /\ turn' = [turn EXCEPT ![r] = "over"]
  /\ UNCHANGED <<outcome, confused>>

\* "failed" without a turn: the server lacks the tool it takes.
MayReturn(r, result) ==
  CASE result = "completed" -> turn[r] = "over"
    [] result = "failed"    -> turn[r] \in {"none", "over"}
    [] OTHER                -> TRUE

Returns(r) ==
  /\ Reached(r)
  /\ outcome[r] = "none"
  /\ \E result \in {"completed", "failed", "raised"} :
       /\ outcome' = [outcome EXCEPT ![r] = result]
       /\ \/ MayReturn(r, result) /\ confused' \in {confused, confused \cup {r}}
          \/ confused' = confused \cup {r}
  /\ UNCHANGED turn

Confuses(r) ==
  /\ Reached(r)
  /\ outcome[r] = "none"
  /\ confused' = confused \cup {r}
  /\ UNCHANGED <<turn, outcome>>

TNext == \E r \in 1..Runs : Begins(r) \/ Ends(r) \/ Returns(r) \/ Confuses(r)

TSpec == TInit /\ [][TNext]_tvars

=============================================================================
